---- MODULE Spec2Model ----
(***************************************************************************)
(* PyMACS workspace / keymap engine.                                       *)
(*                                                                         *)
(* The model follows src/src/pymacs/state.py (EditorState), core.py        *)
(* (Editor), keymap.py (key-sequence codec), commands/editing.py (builtin  *)
(* commands) and ui/controller.py (UIController, the prefix-key dispatch   *)
(* state machine).  Operators that take and return an EditorState record   *)
(* keep the names of the methods they model; a method that mutates `self`  *)
(* becomes an operator from the old record to the new one.                 *)
(***************************************************************************)
EXTENDS Integers, Sequences, FiniteSets, TLC

VARIABLES
    state,              \* Editor.state : EditorState
    commands,           \* Editor._commands (the registered names)
    pending_keys,       \* UIController._pending_keys
    status,             \* UIController._status
    ui_action,          \* UIController._ui_action
    minibuffer_handler, \* UIController._minibuffer_handler (command, require_arg)
    last,               \* history variable: the last call and its inputs
    mode_history,       \* history variable: per buffer, the order of the mode calls
    hooks,              \* Editor._hooks: event -> the hooks registered, in order
    command_infos       \* Editor._commands: the CommandInfo of the names registered
                        \* through Editor.command after the builtin commands

vars == <<state, commands, pending_keys, status, ui_action, minibuffer_handler, last,
          mode_history, hooks, command_infos>>

(***************************************************************************)
(* Bounds of the model.                                                    *)
(***************************************************************************)
\* Window ids are allocated 1, 2, 3, ... and never reused; a split is only
\* taken while the id it would allocate is at most MaxWindowId.
MaxWindowId == 3
\* The same cap in the specification of the buffer lifecycle (three buffer names).
MaxBufferWindowId == 2
\* insert is only taken while the buffers hold fewer than MaxTotalText characters
\* in total.
MaxTotalText == 1
\* The cap on window ids in the specification of key dispatch.
MaxDispatchWindowId == 2

\* Hooks registered for one event.
MaxHooks == 2

\* Buffer names the calls are made with.
SCRATCH == "*scratch*"
BufNames == {SCRATCH, "a", "b"}
\* Buffer names used where the layout tree is the subject.
LayoutBufNames == {SCRATCH, "a"}
\* Characters inserted by the insert command.
Chars == {"x"}

None == "None"

(***************************************************************************)
(* Generic helpers (Python list / dict idioms).                            *)
(***************************************************************************)
Max2(a, b) == IF a >= b THEN a ELSE b
Min2(a, b) == IF a <= b THEN a ELSE b

\* [item for item in seq if item != x]
Without(seq, x) == SelectSeq(seq, LAMBDA item : item # x)

\* list.index(x): the first position of x
IndexOf(seq, x) == CHOOSE i \in 1..Len(seq) : seq[i] = x /\ \A j \in 1..(i-1) : seq[j] # x

\* dict with key k removed (dict.pop(k, None) / del d[k])
DictPop(d, k) == [x \in (DOMAIN d) \ {k} |-> d[x]]

\* dict with d[k] = v assigned (k new or old)
DictSet(d, k, v) == [x \in (DOMAIN d) \cup {k} |-> IF x = k THEN v ELSE d[x]]

Range(seq) == {seq[i] : i \in 1..Len(seq)}

(***************************************************************************)
(* EditorState (state.py).  Layout references are <<kind, id>> pairs.      *)
(***************************************************************************)
WindowRef(id) == <<"window", id>>
SplitRef(id) == <<"split", id>>

\* EditorState(): the dataclass defaults
InitialEditorState ==
    [ buffers            |-> (SCRATCH :> <<>>),
      global_keymap      |-> << >>,
      buffer_keymaps     |-> << >>,
      mode_keymaps       |-> << >>,
      buffer_modes       |-> << >>,
      windows            |-> (1 :> [id |-> 1, buffer |-> SCRATCH]),
      splits             |-> << >>,
      layout_root        |-> WindowRef(1),
      selected_window_id |-> 1,
      next_window_id     |-> 2,
      next_split_id      |-> 1,
      window_points      |-> (1 :> (SCRATCH :> 0)),
      buffer_history     |-> <<SCRATCH>> ]

ensure_buffer(s, buffer_name) ==
    IF buffer_name \in DOMAIN s.buffers THEN s
    ELSE [s EXCEPT !.buffers = DictSet(@, buffer_name, <<>>)]

\* points = window_points.setdefault(window_id, {}); points.setdefault(name, 0)
_ensure_window_point(s, window_id, buffer_name) ==
    LET s1 == ensure_buffer(s, buffer_name)
        wp == s1.window_points
        points == IF window_id \in DOMAIN wp THEN wp[window_id] ELSE << >>
        points1 == IF buffer_name \in DOMAIN points THEN points
                   ELSE DictSet(points, buffer_name, 0)
    IN [s1 EXCEPT !.window_points = DictSet(wp, window_id, points1)]

\* selected_buffer() mutates (ensure_buffer, _ensure_window_point) and returns
\* the name: the state after the call, and the name it returns.
selected_buffer_state(s) ==
    LET window == s.windows[s.selected_window_id]
    IN _ensure_window_point(ensure_buffer(s, window.buffer), window.id, window.buffer)

selected_buffer(s) == s.windows[s.selected_window_id].buffer

\* the buffer made sure of and the history left as it is
buffer_not_marked(s, buffer_name) == ensure_buffer(s, buffer_name)

mark_buffer_recent(s, buffer_name) ==
    LET s1 == ensure_buffer(s, buffer_name)
    IN [s1 EXCEPT !.buffer_history = <<buffer_name>> \o Without(@, buffer_name)]

\* a display that also selects the window
set_window_buffer_selecting(s, window_id, buffer_name) ==
    LET s1 == ensure_buffer(s, buffer_name)
        s2 == [s1 EXCEPT !.windows[window_id].buffer = buffer_name,
                         !.selected_window_id = window_id]
        s3 == _ensure_window_point(s2, window_id, buffer_name)
    IN mark_buffer_recent(s3, buffer_name)

set_window_buffer(s, window_id, buffer_name) ==
    LET s1 == ensure_buffer(s, buffer_name)
        s2 == [s1 EXCEPT !.windows[window_id].buffer = buffer_name]
        s3 == _ensure_window_point(s2, window_id, buffer_name)
    IN mark_buffer_recent(s3, buffer_name)

set_selected_buffer(s, buffer_name) ==
    set_window_buffer(s, s.selected_window_id, buffer_name)

\* window_buffer() mutates through ensure_buffer
window_buffer_state(s, window_id) == ensure_buffer(s, s.windows[window_id].buffer)

window_buffer(s, window_id) == s.windows[window_id].buffer

\* a read of the stored point that does not clamp it
_window_point_as_stored(s, window_id, buffer_name) ==
    _ensure_window_point(s, window_id, buffer_name)

\* _window_point clamps the stored point and writes the clamped value back
_window_point_state(s, window_id, buffer_name) ==
    LET s1 == _ensure_window_point(s, window_id, buffer_name)
        point == s1.window_points[window_id][buffer_name]
        text_len == Len(s1.buffers[buffer_name])
        clamped == Max2(0, Min2(point, text_len))
    IN [s1 EXCEPT !.window_points[window_id][buffer_name] = clamped]

window_cursor_state(s, window_id) ==
    _window_point_state(window_buffer_state(s, window_id), window_id,
                        window_buffer(s, window_id))

window_cursor(s, window_id) ==
    window_cursor_state(s, window_id).window_points[window_id][window_buffer(s, window_id)]

set_window_cursor(s, window_id, cursor) ==
    LET s1 == window_buffer_state(s, window_id)
        buffer_name == window_buffer(s, window_id)
        text_len == Len(s1.buffers[buffer_name])
        wp == s1.window_points
        points == IF window_id \in DOMAIN wp THEN wp[window_id] ELSE << >>
    IN [s1 EXCEPT !.window_points =
            DictSet(wp, window_id, DictSet(points, buffer_name, Max2(0, Min2(cursor, text_len))))]

current_cursor_state(s) == window_cursor_state(s, s.selected_window_id)
current_cursor(s) == window_cursor(s, s.selected_window_id)
set_current_cursor(s, cursor) == set_window_cursor(s, s.selected_window_id, cursor)

current_text_state(s) == selected_buffer_state(s)
current_text(s) == selected_buffer_state(s).buffers[selected_buffer(s)]

\* a text change that keeps only the cursor of the selected window in range
set_text_clamping_selected_only(s, text) ==
    LET s1 == selected_buffer_state(s)
        buffer_name == selected_buffer(s)
        text_len == Len(text)
    IN [s1 EXCEPT
          !.buffers[buffer_name] = text,
          !.window_points =
              [w \in DOMAIN @ |->
                  [b \in DOMAIN @[w] |->
                      IF b = buffer_name /\ w = s.selected_window_id
                      THEN Max2(0, Min2(@[w][b], text_len)) ELSE @[w][b]]]]

set_current_text(s, text) ==
    LET s1 == selected_buffer_state(s)
        buffer_name == selected_buffer(s)
        text_len == Len(text)
    IN [s1 EXCEPT
          !.buffers[buffer_name] = text,
          !.window_points =
              [w \in DOMAIN @ |->
                  [b \in DOMAIN @[w] |->
                      IF b = buffer_name THEN Max2(0, Min2(@[w][b], text_len)) ELSE @[w][b]]]]

(***************************************************************************)
(* Layout tree traversal and surgery.                                      *)
(***************************************************************************)
RECURSIVE _walk_windows(_, _)
_walk_windows(s, ref) ==
    IF ref[1] = "window" THEN <<ref[2]>>
    ELSE LET split == s.splits[ref[2]]
         IN _walk_windows(s, split.first) \o _walk_windows(s, split.second)

window_list(s) == _walk_windows(s, s.layout_root)

\* the last window of the traversal instead of the first
RECURSIVE _last_window(_, _)
_last_window(s, ref) ==
    IF ref[1] = "window" THEN ref[2]
    ELSE _last_window(s, s.splits[ref[2]].second)

RECURSIVE _first_window(_, _)
_first_window(s, ref) ==
    IF ref[1] = "window" THEN ref[2]
    ELSE _first_window(s, s.splits[ref[2]].first)

\* a walk that replaces nothing
_replace_ref_nowhere(splits, ref, target, replacement) == [ref |-> ref, splits |-> splits]

\* _replace_ref rewrites split.first / split.second in place while it walks and
\* returns the (possibly replaced) reference: [ref, splits] after the walk.
RECURSIVE _replace_ref(_, _, _, _)
_replace_ref(splits, ref, target, replacement) ==
    IF ref = target THEN [ref |-> replacement, splits |-> splits]
    ELSE IF ref[1] = "window" THEN [ref |-> ref, splits |-> splits]
    ELSE LET node_id == ref[2]
             r1 == _replace_ref(splits, splits[node_id].first, target, replacement)
             sp1 == [r1.splits EXCEPT ![node_id].first = r1.ref]
             r2 == _replace_ref(sp1, sp1[node_id].second, target, replacement)
             sp2 == [r2.splits EXCEPT ![node_id].second = r2.ref]
         IN [ref |-> ref, splits |-> sp2]

\* _find_parent: <<parent_id, side>>, or NoParent for Python's None.  The
\* (parent_id, side) pair of arguments is passed as one tuple.
NoParent == << >>

RECURSIVE _find_parent(_, _, _, _)
_find_parent(s, ref, target, parent) ==
    IF ref = target THEN parent
    ELSE IF ref[1] = "window" THEN NoParent
    ELSE LET split == s.splits[ref[2]]
             found == _find_parent(s, split.first, target, <<ref[2], "first">>)
         IN IF found # NoParent THEN found
            ELSE _find_parent(s, split.second, target, <<ref[2], "second">>)

(***************************************************************************)
(* Results of calls that may raise: the state the call leaves behind, the  *)
(* exception class ("None" when it returned), its message, and the value   *)
(* returned (has_value is FALSE for Python's None).                        *)
(***************************************************************************)
Returned(s, has_value, value) ==
    [st |-> s, exc |-> None, msg |-> "", has_value |-> has_value, value |-> value]

Raised(s, exc, msg) ==
    [st |-> s, exc |-> exc, msg |-> msg, has_value |-> FALSE, value |-> ""]

(***************************************************************************)
(* Structural window operations.                                           *)
(***************************************************************************)
\* every axis name accepted
AnyAxis == {"below", "right", "diagonal"}

Axes == {"below", "right"}

split_selected_window(s, axis) ==
    IF axis \notin Axes THEN Raised(s, "ValueError", "unknown split axis: " \o axis)
    ELSE
    LET selected_id == s.selected_window_id
        selected_ref == WindowRef(selected_id)
        s1 == selected_buffer_state(s)
        selected_buf == selected_buffer(s)
        s2 == window_cursor_state(s1, selected_id)
        selected_point == window_cursor(s1, selected_id)
        new_window_id == s2.next_window_id
        split_id == s2.next_split_id
        split_ref == SplitRef(split_id)
        splits1 == DictSet(s2.splits, split_id,
                           [id |-> split_id, axis |-> axis,
                            first |-> selected_ref, second |-> WindowRef(new_window_id)])
        r == _replace_ref(splits1, s2.layout_root, selected_ref, split_ref)
    IN Returned(
         [s2 EXCEPT
            !.next_window_id = @ + 1,
            !.windows = DictSet(@, new_window_id, [id |-> new_window_id, buffer |-> selected_buf]),
            !.window_points = DictSet(@, new_window_id, (selected_buf :> selected_point)),
            !.next_split_id = @ + 1,
            !.splits = r.splits,
            !.layout_root = r.ref],
         TRUE, new_window_id)

\* the selection moved to the window before the selected one, wrapping
previous_window(s) ==
    LET windows == window_list(s)
    IN IF Len(windows) <= 1 THEN s
       ELSE LET idx == IndexOf(windows, s.selected_window_id) - 1
            IN [s EXCEPT !.selected_window_id =
                             windows[((idx + Len(windows) - 1) % Len(windows)) + 1]]

other_window(s) ==
    LET windows == window_list(s)
    IN IF Len(windows) <= 1 THEN s
       ELSE LET idx == IndexOf(windows, s.selected_window_id) - 1
            IN [s EXCEPT !.selected_window_id = windows[((idx + 1) % Len(windows)) + 1]]

\* sibling_ref = parent_node.second if side == "first" else parent_node.first
first_child_as_sibling(parent_node, side) == parent_node.first

sibling_of(parent_node, side) ==
    IF side = "first" THEN parent_node.second ELSE parent_node.first

\* a deletion that leaves the collapsed split in the split store
delete_window_keeping_split(s) ==
    LET windows == window_list(s)
        selected == s.selected_window_id
        target_ref == WindowRef(selected)
        parent == _find_parent(s, s.layout_root, target_ref, NoParent)
    IN IF Len(windows) <= 1 THEN Raised(s, "ValueError", "cannot delete the only window")
       ELSE IF parent = NoParent
       THEN Raised(s, "RuntimeError", "cannot resolve parent split for selected window")
       ELSE
       LET parent_id == parent[1]
           side == parent[2]
           parent_ref == SplitRef(parent_id)
           parent_node == s.splits[parent_id]
           sibling_ref == sibling_of(parent_node, side)
           r == _replace_ref(s.splits, s.layout_root, parent_ref, sibling_ref)
           s1 == [s EXCEPT
                    !.layout_root = r.ref,
                    !.windows = DictPop(@, selected),
                    !.window_points = DictPop(@, selected),
                    !.splits = r.splits]
       IN Returned([s1 EXCEPT !.selected_window_id = _first_window(s1, sibling_ref)],
                   TRUE, _first_window(s1, sibling_ref))

delete_window(s) ==
    LET windows == window_list(s)
        selected == s.selected_window_id
        target_ref == WindowRef(selected)
        parent == _find_parent(s, s.layout_root, target_ref, NoParent)
    IN IF Len(windows) <= 1 THEN Raised(s, "ValueError", "cannot delete the only window")
       ELSE IF parent = NoParent
       THEN Raised(s, "RuntimeError", "cannot resolve parent split for selected window")
       ELSE
       LET parent_id == parent[1]
           side == parent[2]
           parent_ref == SplitRef(parent_id)
           parent_node == s.splits[parent_id]
           sibling_ref == sibling_of(parent_node, side)
           r == _replace_ref(s.splits, s.layout_root, parent_ref, sibling_ref)
           s1 == [s EXCEPT
                    !.layout_root = r.ref,
                    !.windows = DictPop(@, selected),
                    !.window_points = DictPop(@, selected),
                    !.splits = DictPop(r.splits, parent_id)]
       IN Returned([s1 EXCEPT !.selected_window_id = _first_window(s1, sibling_ref)],
                   TRUE, _first_window(s1, sibling_ref))

\* the tree collapsed while every window's cursor memory is kept
only_layout_collapsed(s) ==
    [s EXCEPT
       !.windows = (s.selected_window_id :> s.windows[s.selected_window_id]),
       !.splits = << >>,
       !.layout_root = WindowRef(s.selected_window_id)]

delete_other_windows(s) ==
    LET selected == s.selected_window_id
        selected_window == s.windows[selected]
        selected_points == IF selected \in DOMAIN s.window_points
                           THEN s.window_points[selected] ELSE << >>
        s1 == [s EXCEPT
                 !.windows = (selected :> selected_window),
                 !.window_points = (selected :> selected_points),
                 !.splits = << >>,
                 !.layout_root = WindowRef(selected)]
    IN _ensure_window_point(s1, selected, selected_window.buffer)

\* the selected window whatever the preference
selected_window_always(s, prefer_other) == s.selected_window_id

\* the first window of the traversal other than the selected one, if any
pop_to_buffer_target(s, prefer_other) ==
    LET others == SelectSeq(window_list(s), LAMBDA w : w # s.selected_window_id)
    IN IF prefer_other /\ Len(others) > 0 THEN others[1] ELSE s.selected_window_id

pop_to_buffer(s, buffer_name, prefer_other) ==
    set_window_buffer(s, pop_to_buffer_target(s, prefer_other), buffer_name)

(***************************************************************************)
(* Buffer lifecycle.                                                       *)
(***************************************************************************)
\* recent_buffer's second loop walks the dict `buffers` in insertion order,
\* which this model does not record: dict_first stands for the first key of
\* that walk that is not excluded, any member of RecentFallbacks.
RecentFallbacks(s, excluded) ==
    IF (DOMAIN s.buffers) \ excluded = {} THEN {None} ELSE (DOMAIN s.buffers) \ excluded

least_recent_buffer(s, excluded, dict_first) ==
    LET live == SelectSeq(s.buffer_history,
                          LAMBDA name : name \notin excluded /\ name \in DOMAIN s.buffers)
    IN IF Len(live) > 0 THEN live[Len(live)] ELSE dict_first

recent_buffer(s, excluded, dict_first) ==
    LET live == SelectSeq(s.buffer_history,
                          LAMBDA name : name \notin excluded /\ name \in DOMAIN s.buffers)
    IN IF Len(live) > 0 THEN live[1] ELSE dict_first

\* for window in windows.values(): if window.buffer == buffer_name: ...
only_selected_window_reassigned(s, buffer_name, replacement) ==
    IF s.windows[s.selected_window_id].buffer = buffer_name
    THEN _ensure_window_point(
             [s EXCEPT !.windows[s.selected_window_id].buffer = replacement],
             s.selected_window_id, replacement)
    ELSE s

reassign_windows(s, buffer_name, replacement) ==
    LET showing == {w \in DOMAIN s.windows : s.windows[w].buffer = buffer_name}
    IN [s EXCEPT
          !.windows = [w \in DOMAIN @ |->
                         IF w \in showing THEN [@[w] EXCEPT !.buffer = replacement]
                         ELSE @[w]],
          !.window_points =
              [w \in DOMAIN @ \cup showing |->
                 IF w \in showing
                 THEN LET points == IF w \in DOMAIN @ THEN @[w] ELSE << >>
                      IN IF replacement \in DOMAIN points THEN points
                         ELSE DictSet(points, replacement, 0)
                 ELSE @[w]]]

\* a kill that leaves the keymap of the buffer in place
kill_buffer_keeping_keymap(s, buffer_name, dict_first) ==
    IF buffer_name \notin DOMAIN s.buffers
    THEN Raised(s, "KeyError", "unknown buffer: " \o buffer_name)
    ELSE
    LET s1 == [s EXCEPT
                 !.buffers = DictPop(@, buffer_name),
                 !.buffer_modes = DictPop(@, buffer_name),
                 !.buffer_history = Without(@, buffer_name),
                 !.window_points = [w \in DOMAIN @ |-> DictPop(@[w], buffer_name)]]
        found == recent_buffer(s1, {buffer_name}, dict_first)
        replacement == IF found = None THEN SCRATCH ELSE found
        s2 == IF found = None THEN ensure_buffer(s1, replacement) ELSE s1
        s3 == reassign_windows(s2, buffer_name, replacement)
    IN Returned(mark_buffer_recent(s3, replacement), TRUE, replacement)

\* a kill that leaves the offsets remembered for the buffer in place
kill_buffer_keeping_points(s, buffer_name, dict_first) ==
    IF buffer_name \notin DOMAIN s.buffers
    THEN Raised(s, "KeyError", "unknown buffer: " \o buffer_name)
    ELSE
    LET s1 == [s EXCEPT
                 !.buffers = DictPop(@, buffer_name),
                 !.buffer_keymaps = DictPop(@, buffer_name),
                 !.buffer_modes = DictPop(@, buffer_name),
                 !.buffer_history = Without(@, buffer_name)]
        found == recent_buffer(s1, {buffer_name}, dict_first)
        replacement == IF found = None THEN SCRATCH ELSE found
        s2 == IF found = None THEN ensure_buffer(s1, replacement) ELSE s1
        s3 == reassign_windows(s2, buffer_name, replacement)
    IN Returned(mark_buffer_recent(s3, replacement), TRUE, replacement)

kill_buffer(s, buffer_name, dict_first) ==
    IF buffer_name \notin DOMAIN s.buffers
    THEN Raised(s, "KeyError", "unknown buffer: " \o buffer_name)
    ELSE
    LET s1 == [s EXCEPT
                 !.buffers = DictPop(@, buffer_name),
                 !.buffer_keymaps = DictPop(@, buffer_name),
                 !.buffer_modes = DictPop(@, buffer_name),
                 !.buffer_history = Without(@, buffer_name),
                 !.window_points = [w \in DOMAIN @ |-> DictPop(@[w], buffer_name)]]
        found == recent_buffer(s1, {buffer_name}, dict_first)
        replacement == IF found = None THEN SCRATCH ELSE found
        s2 == IF found = None THEN ensure_buffer(s1, replacement) ELSE s1
        s3 == reassign_windows(s2, buffer_name, replacement)
    IN Returned(mark_buffer_recent(s3, replacement), TRUE, replacement)

(***************************************************************************)
(* Builtin commands used by the workspace actions (commands/editing.py).   *)
(***************************************************************************)
_insert_text(s, text) ==
    LET s1 == current_cursor_state(current_text_state(s))
        current == current_text(s)
        cursor == current_cursor(current_text_state(s))
        s2 == set_current_text(s1, SubSeq(current, 1, cursor) \o text
                                   \o SubSeq(current, cursor + 1, Len(current)))
    IN set_current_cursor(s2, cursor + Len(text))

(***************************************************************************)
(* Python strings that are parsed are sequences of one-character strings;  *)
(* Str gives the text of one for a status message.                        *)
(***************************************************************************)
LowerLetters == <<"a","b","c","d","e","f","g","h","i","j","k","l","m",
                  "n","o","p","q","r","s","t","u","v","w","x","y","z">>
UpperLetters == <<"A","B","C","D","E","F","G","H","I","J","K","L","M",
                  "N","O","P","Q","R","S","T","U","V","W","X","Y","Z">>
WhitespaceChars == {" ", "\t", "\n"}

RECURSIVE Str(_)
Str(chars) == IF chars = << >> THEN "" ELSE chars[1] \o Str(Tail(chars))

char_upper(c) ==
    IF \E i \in 1..26 : LowerLetters[i] = c
    THEN UpperLetters[CHOOSE i \in 1..26 : LowerLetters[i] = c] ELSE c

char_lower(c) ==
    IF \E i \in 1..26 : UpperLetters[i] = c
    THEN LowerLetters[CHOOSE i \in 1..26 : UpperLetters[i] = c] ELSE c

str_upper(chars) == [i \in 1..Len(chars) |-> char_upper(chars[i])]
str_lower(chars) == [i \in 1..Len(chars) |-> char_lower(chars[i])]

RECURSIVE str_lstrip(_)
str_lstrip(chars) ==
    IF chars # << >> /\ chars[1] \in WhitespaceChars THEN str_lstrip(Tail(chars)) ELSE chars

RECURSIVE str_rstrip(_)
str_rstrip(chars) ==
    IF chars # << >> /\ chars[Len(chars)] \in WhitespaceChars
    THEN str_rstrip(SubSeq(chars, 1, Len(chars) - 1)) ELSE chars

str_strip(chars) == str_rstrip(str_lstrip(chars))

\* str.split(sep) for a one-character sep: the pieces between separators,
\* empty pieces included
RECURSIVE str_split_on(_, _)
str_split_on(chars, sep) ==
    IF \A i \in 1..Len(chars) : chars[i] # sep THEN <<chars>>
    ELSE LET i == CHOOSE i \in 1..Len(chars) :
                      chars[i] = sep /\ \A j \in 1..(i - 1) : chars[j] # sep
         IN <<SubSeq(chars, 1, i - 1)>> \o str_split_on(SubSeq(chars, i + 1, Len(chars)), sep)

\* str.split(): the maximal runs of non-whitespace characters
RECURSIVE str_split(_)
str_split(chars) ==
    LET rest == str_lstrip(chars)
    IN IF rest = << >> THEN << >>
       ELSE IF \A i \in 1..Len(rest) : rest[i] \notin WhitespaceChars THEN <<rest>>
       ELSE LET i == CHOOSE i \in 1..Len(rest) :
                         rest[i] \in WhitespaceChars
                         /\ \A j \in 1..(i - 1) : rest[j] \notin WhitespaceChars
            IN <<SubSeq(rest, 1, i - 1)>> \o str_split(SubSeq(rest, i + 1, Len(rest)))

\* sep.join(parts)
RECURSIVE str_join(_, _)
str_join(parts, sep) ==
    IF parts = << >> THEN << >>
    ELSE IF Len(parts) = 1 THEN parts[1]
    ELSE parts[1] \o sep \o str_join(Tail(parts), sep)

\* ord(c) of the characters the texts of the model are made of; the quote,
\* the backslash and the backquote, which no text of the model holds, keep
\* their places
ord(c) ==
    LET printable ==
            <<" ","!","(quote)","#","$","%","&","'","(",")","*","+",",","-",".","/",
              "0","1","2","3","4","5","6","7","8","9",":",";","<","=",">","?",
              "@","A","B","C","D","E","F","G","H","I","J","K","L","M","N","O",
              "P","Q","R","S","T","U","V","W","X","Y","Z","[","(backslash)","]","^","_",
              "(backquote)","a","b","c","d","e","f","g","h","i","j","k","l","m","n","o",
              "p","q","r","s","t","u","v","w","x","y","z","{","|","}","~">>
    IN IF c = "\t" THEN 9 ELSE IF c = "\n" THEN 10 ELSE 31 + IndexOf(printable, c)

\* a < b for two str: the first character that differs decides, a proper
\* prefix comes first
RECURSIVE str_less(_, _)
str_less(a, b) ==
    IF b = << >> THEN FALSE
    ELSE IF a = << >> THEN TRUE
    ELSE IF a[1] = b[1] THEN str_less(Tail(a), Tail(b))
    ELSE ord(a[1]) < ord(b[1])

\* a < b for two tuples of str
RECURSIVE tuple_less(_, _)
tuple_less(a, b) ==
    IF b = << >> THEN FALSE
    ELSE IF a = << >> THEN TRUE
    ELSE IF a[1] = b[1] THEN tuple_less(Tail(a), Tail(b))
    ELSE str_less(a[1], b[1])

\* sorted(items) for distinct items under the order Less
sorted(items, Less(_, _)) ==
    [i \in 1..Cardinality(items) |->
        CHOOSE x \in items : Cardinality({y \in items : Less(y, x)}) = i - 1]

\* str(n) for an int n >= 0
RECURSIVE str_of_int(_)
str_of_int(n) ==
    LET digits == <<"0","1","2","3","4","5","6","7","8","9">>
    IN IF n < 10 THEN <<digits[n + 1]>>
       ELSE str_of_int(n \div 10) \o <<digits[(n % 10) + 1]>>

\* f"{chars:<width}"
str_ljust(chars, width) == chars \o [i \in 1..(width - Len(chars)) |-> " "]

\* The names of buffers and modes are TLA+ strings; chars_of gives the
\* characters of the names the model uses, and Str is its inverse.
chars_of(name) ==
    LET names == ("*scratch*" :> <<"*","s","c","r","a","t","c","h","*">>) @@ ("a" :> <<"a">>) @@ ("b" :> <<"b">>)
                 @@ ("*Buffer List*" :> <<"*","B","u","f","f","e","r"," ","L","i","s","t","*">>) @@ ("*Help*" :> <<"*","H","e","l","p","*">>)
                 @@ ("m1" :> <<"m","1">>) @@ ("m2" :> <<"m","2">>)
                 @@ ("mode" :> <<"m","o","d","e">>) @@ ("buffer" :> <<"b","u","f","f","e","r">>) @@ ("global" :> <<"g","l","o","b","a","l">>)
    IN names[name]

(***************************************************************************)
(* Key-sequence codec (keymap.py).                                         *)
(***************************************************************************)
MODIFIER_ORDER == << <<"C">>, <<"M">>, <<"S">> >>

MODIFIER_ALIASES ==
    (<<"C">> :> <<"C">>) @@ (<<"C","T","R","L">> :> <<"C">>)
    @@ (<<"C","O","N","T","R","O","L">> :> <<"C">>)
    @@ (<<"M">> :> <<"M">>) @@ (<<"M","E","T","A">> :> <<"M">>)
    @@ (<<"A","L","T">> :> <<"M">>)
    @@ (<<"S">> :> <<"S">>) @@ (<<"S","H","I","F","T">> :> <<"S">>)

\* a parse either returns a value or raises ValueError with a message
Parsed(value) == [ok |-> TRUE, value |-> value, msg |-> ""]
ParseError(msg) == [ok |-> FALSE, value |-> << >>, msg |-> msg]

\* the modifiers of parts[:-1], mapped and de-duplicated in order of first
\* use; the first unknown modifier stops the loop
RECURSIVE chord_modifiers(_, _)
chord_modifiers(raw_mods, modifiers) ==
    IF raw_mods = << >> THEN Parsed(modifiers)
    ELSE LET raw_mod == raw_mods[1]
             up == str_upper(raw_mod)
         IN IF up \notin DOMAIN MODIFIER_ALIASES
            THEN ParseError("unknown key modifier: " \o Str(raw_mod))
            ELSE LET mod == MODIFIER_ALIASES[up]
                 IN chord_modifiers(Tail(raw_mods),
                        IF mod \in Range(modifiers) THEN modifiers ELSE Append(modifiers, mod))

\* the chord with the modifiers in the order of their first use
chord_in_order_of_use(modifiers, base) ==
    IF ~modifiers.ok THEN modifiers
    ELSE Parsed(str_join(Append(modifiers.value, str_lower(base)), <<"-">>))

\* the canonical chord of the modifiers found and the base key
canonical_chord(modifiers, base) ==
    IF ~modifiers.ok THEN modifiers
    ELSE IF \E i \in 1..Len(MODIFIER_ORDER) : MODIFIER_ORDER[i] \in Range(modifiers.value)
    THEN Parsed(str_join(Append(SelectSeq(MODIFIER_ORDER,
                                          LAMBDA mod : mod \in Range(modifiers.value)),
                                str_lower(base)),
                         <<"-">>))
    ELSE Parsed(str_lower(base))

\* _parse_chord after `parts = token.split("-")`; `if not base` never holds
\* once no part is empty
chord_of_parts(token, parts) ==
    IF \E i \in 1..Len(parts) : parts[i] = << >>
    THEN ParseError("invalid key token: " \o Str(token))
    ELSE canonical_chord(chord_modifiers(SubSeq(parts, 1, Len(parts) - 1), << >>),
                         parts[Len(parts)])

\* _parse_chord of a token already stripped
chord_of_token(token) ==
    IF token = << >> THEN ParseError("empty key token")
    ELSE chord_of_parts(token, str_split_on(token, "-"))

_parse_chord(raw_token) == chord_of_token(str_strip(raw_token))

\* tuple(_parse_chord(token) for token in tokens): the first failure raises
\* the chords parsed so far followed by those of the remaining tokens
chords_after(first, rest) ==
    IF ~first.ok THEN first
    ELSE IF ~rest.ok THEN rest
    ELSE Parsed(<<first.value>> \o rest.value)

RECURSIVE parse_chords(_)
parse_chords(tokens) ==
    IF tokens = << >> THEN Parsed(<< >>)
    ELSE chords_after(_parse_chord(tokens[1]), parse_chords(Tail(tokens)))

\* `if not tokens: raise ValueError("empty key sequence")`, then the chords
chords_of_tokens(tokens) ==
    IF tokens = << >> THEN ParseError("empty key sequence") ELSE parse_chords(tokens)

\* parse_key_sequence of a str
parse_key_sequence(sequence) == chords_of_tokens(str_split(sequence))

\* parse_key_sequence of a tuple or list of chord strings
parse_key_sequence_of_list(sequence) ==
    chords_of_tokens([i \in 1..Len(sequence) |-> str_strip(sequence[i])])

format_key_sequence(sequence) == str_join(sequence, <<" ">>)

(***************************************************************************)
(* Editor (core.py): the command registry and the scoped keymaps.  A       *)
(* keymap is a function from key sequences (tuples of canonical chords) to *)
(* command names.                                                          *)
(***************************************************************************)
\* dict.get(k, default)
DictGet(d, k, default) == IF k \in DOMAIN d THEN d[k] ELSE default

\* register_builtin_commands: the names in Editor._commands
BuiltinCommands ==
    { "switch-to-buffer", "list-buffers", "kill-buffer",
      "split-window-below", "split-window-right", "other-window",
      "delete-window", "delete-other-windows",
      "insert", "newline", "forward-char", "backward-char",
      "move-beginning-of-line", "move-end-of-line", "next-line", "previous-line",
      "delete-backward-char", "delete-forward-char", "kill-line",
      "show-buffer", "set", "get",
      "describe-command", "describe-key", "where-is" }

\* the exception classes the calls of the model raise, all of them
\* subclasses of Exception
ExceptionClasses == {"KeyError", "ValueError", "RuntimeError", "TypeError"}

KeyBindingInfo(sequence, command_name, scope, buffer, mode) ==
    [sequence |-> sequence, command_name |-> command_name, scope |-> scope,
     buffer |-> buffer, mode |-> mode]

\* `buffer or self.state.selected_buffer()`
target_buffer_state(s, buffer) == IF buffer \in {None, ""} THEN selected_buffer_state(s) ELSE s
target_buffer(s, buffer) == IF buffer \in {None, ""} THEN selected_buffer(s) ELSE buffer

\* a lookup order that puts the buffer table before the mode tables
_active_keymaps_buffer_first(s, buffer) ==
    LET modes == DictGet(s.buffer_modes, buffer, << >>)
        n == Len(modes)
    IN << [scope |-> "buffer", mode |-> None, buffer |-> buffer,
           keymap |-> DictGet(s.buffer_keymaps, buffer, << >>)] >>
       \o [i \in 1..n |-> [scope |-> "mode", mode |-> modes[n + 1 - i], buffer |-> buffer,
                           keymap |-> DictGet(s.mode_keymaps, modes[n + 1 - i], << >>)]]
       \o << [scope |-> "global", mode |-> None, buffer |-> None,
              keymap |-> s.global_keymap] >>

\* a lookup order that walks the modes without reversing them
_active_keymaps_oldest_mode_first(s, buffer) ==
    LET modes == DictGet(s.buffer_modes, buffer, << >>)
        n == Len(modes)
    IN [i \in 1..n |-> [scope |-> "mode", mode |-> modes[i], buffer |-> buffer,
                        keymap |-> DictGet(s.mode_keymaps, modes[i], << >>)]]
       \o << [scope |-> "buffer", mode |-> None, buffer |-> buffer,
              keymap |-> DictGet(s.buffer_keymaps, buffer, << >>)],
             [scope |-> "global", mode |-> None, buffer |-> None,
              keymap |-> s.global_keymap] >>

\* the keymaps consulted for a buffer, in order of precedence
_active_keymaps(s, buffer) ==
    LET modes == DictGet(s.buffer_modes, buffer, << >>)
        n == Len(modes)
    IN [i \in 1..n |-> [scope |-> "mode", mode |-> modes[n + 1 - i], buffer |-> buffer,
                        keymap |-> DictGet(s.mode_keymaps, modes[n + 1 - i], << >>)]]
       \o << [scope |-> "buffer", mode |-> None, buffer |-> buffer,
              keymap |-> DictGet(s.buffer_keymaps, buffer, << >>)],
             [scope |-> "global", mode |-> None, buffer |-> None,
              keymap |-> s.global_keymap] >>

\* a registry that knows every name
any_name_is_command(cmds, command_name) == TRUE

\* `command_name in self._commands`
is_command(cmds, command_name) == command_name \in cmds

\* bind_key; key is the outcome of parse_key_sequence(sequence)
bind_key(s, cmds, key, command_name, scope, buffer, mode) ==
    IF ~is_command(cmds, command_name)
    THEN Raised(s, "KeyError", "unknown command: " \o command_name)
    ELSE IF ~key.ok THEN Raised(s, "ValueError", key.msg)
    ELSE IF scope = "global"
    THEN Returned([s EXCEPT !.global_keymap = DictSet(@, key.value, command_name)], FALSE, None)
    ELSE IF scope = "buffer"
    THEN LET s1 == target_buffer_state(s, buffer)
             target == target_buffer(s, buffer)
             keymap == DictGet(s1.buffer_keymaps, target, << >>)
         IN Returned([s1 EXCEPT !.buffer_keymaps =
                          DictSet(@, target, DictSet(keymap, key.value, command_name))],
                     FALSE, None)
    ELSE IF scope = "mode"
    THEN IF mode \in {None, ""}
         THEN Raised(s, "ValueError", "mode name required for mode scope")
         ELSE LET keymap == DictGet(s.mode_keymaps, mode, << >>)
              IN Returned([s EXCEPT !.mode_keymaps =
                               DictSet(@, mode, DictSet(keymap, key.value, command_name))],
                          FALSE, None)
    ELSE Raised(s, "ValueError", "unknown keymap scope: " \o scope)

enable_mode(s, mode, buffer) ==
    LET s1 == target_buffer_state(s, buffer)
        target == target_buffer(s, buffer)
        modes == DictGet(s1.buffer_modes, target, << >>)
    IN [s1 EXCEPT !.buffer_modes =
            DictSet(@, target, IF mode \in Range(modes) THEN modes ELSE Append(modes, mode))]

disable_mode(s, mode, buffer) ==
    LET s1 == target_buffer_state(s, buffer)
        target == target_buffer(s, buffer)
        modes == DictGet(s1.buffer_modes, target, << >>)
    IN IF modes = << >> \/ mode \notin Range(modes) THEN s1
       ELSE LET i == IndexOf(modes, mode)
            IN [s1 EXCEPT !.buffer_modes =
                    DictSet(@, target, SubSeq(modes, 1, i - 1) \o SubSeq(modes, i + 1, Len(modes)))]

\* the loop of describe_key over the active keymaps that hold the key
first_binding(s, key, hits) ==
    IF hits # << >>
    THEN Returned(s, TRUE,
                  KeyBindingInfo(key, hits[1].keymap[key], hits[1].scope, hits[1].buffer,
                                 hits[1].mode))
    ELSE Raised(s, "KeyError", "unbound key sequence: " \o Str(format_key_sequence(key)))

\* describe_key; key is the outcome of parse_key_sequence(sequence)
describe_key(s, key, buffer) ==
    IF ~key.ok THEN Raised(s, "ValueError", key.msg)
    ELSE first_binding(target_buffer_state(s, buffer), key.value,
                       SelectSeq(_active_keymaps(target_buffer_state(s, buffer),
                                                 target_buffer(s, buffer)),
                                 LAMBDA entry : key.value \in DOMAIN entry.keymap))

\* `.command_name` of the binding found
command_name_of(info) ==
    IF info.exc # None THEN info ELSE Returned(info.st, TRUE, info.value.command_name)

resolve_key(s, key, buffer) == command_name_of(describe_key(s, key, buffer))

\* a comparison that lets a bound sequence of the same length through
IsPrefixOrEqual(key, bound_sequence) ==
    /\ Len(bound_sequence) >= Len(key)
    /\ SubSeq(bound_sequence, 1, Len(key)) = key

\* bound_sequence[: len(key)] == key for a longer bound_sequence
IsStrictPrefix(key, bound_sequence) ==
    /\ Len(bound_sequence) > Len(key)
    /\ SubSeq(bound_sequence, 1, Len(key)) = key

\* a lookup that finds no longer binding
no_longer_binding(s, key, active) == Returned(s, TRUE, FALSE)

\* the loops of has_prefix_binding over the active keymaps
some_longer_binding(s, key, active) ==
    Returned(s, TRUE,
             \E i \in 1..Len(active) :
                 \E bound_sequence \in DOMAIN active[i].keymap :
                     IsStrictPrefix(key, bound_sequence))

\* has_prefix_binding; key is the outcome of parse_key_sequence(sequence)
has_prefix_binding(s, key, buffer) ==
    IF ~key.ok THEN Raised(s, "ValueError", key.msg)
    ELSE some_longer_binding(target_buffer_state(s, buffer), key.value,
                             _active_keymaps(target_buffer_state(s, buffer),
                                             target_buffer(s, buffer)))

(***************************************************************************)
(* Builtin commands (commands/editing.py) and Editor.run.  The result of   *)
(* a run also names the commands whose function was called (ran).          *)
(***************************************************************************)
\* _parse_count(parts, default=1); the count arguments of the model are integers
_parse_count(parts) == IF parts = << >> THEN 1 ELSE parts[1]

\* a command function that calls an Editor method and returns None: the
\* exception of the method propagates
returns_None(r) == IF r.exc # None THEN r ELSE Returned(r.st, FALSE, None)

BUFFER_LIST_NAME == "*Buffer List*"
HELP_BUFFER_NAME == "*Help*"

\* switch_to_buffer(ed, name)
switch_to_buffer(s, name) ==
    IF str_strip(name) = << >> THEN Raised(s, "ValueError", "usage: switch-to-buffer <name>")
    ELSE Returned(set_selected_buffer(s, Str(str_strip(name))), FALSE, None)

\* one line of the buffer list
buffer_list_line(s, name, current) ==
    <<IF name = current THEN "*" ELSE " ", " ">> \o str_ljust(chars_of(name), 20) \o <<" ">>
    \o str_of_int(Len(s.buffers[name])) \o <<" ","c","h","a","r","s">>

\* list_buffers(ed): the text is written into the store directly
list_buffers(s) ==
    LET s1 == selected_buffer_state(s)
        names == sorted(DOMAIN s1.buffers, LAMBDA a, b : str_less(chars_of(a), chars_of(b)))
        lines == <<<<"B","u","f","f","e","r","s">>, << >>, <<"*"," ","m","a","r","k","s"," ","c","u","r","r","e","n","t"," ","b","u","f","f","e","r">>, << >> >>
                 \o [i \in 1..Cardinality(DOMAIN s1.buffers) |->
                        buffer_list_line(s1, names[i], selected_buffer(s))]
        s2 == [s1 EXCEPT !.buffers = DictSet(@, BUFFER_LIST_NAME, str_join(lines, <<"\n">>))]
    IN Returned(pop_to_buffer(mark_buffer_recent(s2, BUFFER_LIST_NAME), BUFFER_LIST_NAME, TRUE),
                TRUE, "buffer list")

\* `return f"killed {target} -> {replacement}"`, unless state.kill_buffer raised
killed(r, target) ==
    IF r.exc # None THEN r ELSE Returned(r.st, TRUE, "killed " \o target \o " -> " \o r.value)

\* kill_buffer(ed, *parts).  The walk of recent_buffer over the dict is reached
\* only when no other buffer is in the history; the first key of the dict is
\* then taken where a single key is left to take.
kill_buffer_command(s, parts) ==
    LET named == str_strip(str_join(parts, <<" ">>))
        target == IF named = << >> THEN selected_buffer(s) ELSE Str(named)
        s1 == IF named = << >> THEN selected_buffer_state(s) ELSE s
        fallbacks == RecentFallbacks([s1 EXCEPT !.buffers = DictPop(@, target)], {target})
        dict_first ==
            IF \E i \in 1..Len(s1.buffer_history) :
                   s1.buffer_history[i] # target /\ s1.buffer_history[i] \in DOMAIN s1.buffers
            THEN None
            ELSE CHOOSE name \in fallbacks : Cardinality(fallbacks) = 1
    IN killed(kill_buffer(s1, target, dict_first), target)

\* insert(ed, *parts)
insert(s, parts) == Returned(_insert_text(s, str_join(parts, <<" ">>)), FALSE, None)

\* delete_backward_char(ed, *parts)
delete_backward_char(s, parts) ==
    LET count == Max2(0, _parse_count(parts))
        s1 == current_cursor_state(current_text_state(s))
        text == current_text(s)
        cursor == current_cursor(current_text_state(s))
        start == Max2(0, cursor - count)
    IN IF count = 0 THEN Returned(s, FALSE, None)
       ELSE IF cursor = 0 THEN Returned(s1, FALSE, None)
       ELSE Returned(set_current_cursor(
                         set_current_text(s1, SubSeq(text, 1, start)
                                              \o SubSeq(text, cursor + 1, Len(text))),
                         start),
                     FALSE, None)

\* a listing that puts the sequences of each keymap in descending order
RECURSIVE bindings_in_descending(_, _)
bindings_in_descending(active, name) ==
    IF active = << >> THEN << >>
    ELSE LET sequences == sorted({k \in DOMAIN active[1].keymap : active[1].keymap[k] = name},
                                 LAMBDA a, b : tuple_less(b, a))
         IN [i \in 1..Len(sequences) |->
                KeyBindingInfo(sequences[i], name, active[1].scope, active[1].buffer,
                               active[1].mode)]
            \o bindings_in_descending(Tail(active), name)

\* the bindings of one active keymap to the command, in the order of
\* sorted(keymap.items(), key=lambda item: item[0]), then those of the next
RECURSIVE bindings_in(_, _)
bindings_in(active, name) ==
    IF active = << >> THEN << >>
    ELSE LET sequences == sorted({k \in DOMAIN active[1].keymap : active[1].keymap[k] = name},
                                 tuple_less)
         IN [i \in 1..Len(sequences) |->
                KeyBindingInfo(sequences[i], name, active[1].scope, active[1].buffer,
                               active[1].mode)]
            \o bindings_in(Tail(active), name)

\* Editor.where_is
where_is(s, cmds, name, buffer) ==
    IF ~is_command(cmds, name) THEN Raised(s, "KeyError", "unknown command: " \o name)
    ELSE Returned(target_buffer_state(s, buffer), TRUE,
                  bindings_in(_active_keymaps(target_buffer_state(s, buffer),
                                              target_buffer(s, buffer)),
                              name))

_format_scope(binding) ==
    IF binding.scope = "mode" /\ binding.mode \notin {None, ""}
    THEN <<"m","o","d","e",":">> \o chars_of(binding.mode)
    ELSE IF binding.scope = "buffer" /\ binding.buffer \notin {None, ""}
    THEN <<"b","u","f","f","e","r",":">> \o chars_of(binding.buffer)
    ELSE chars_of(binding.scope)

\* _show_help(editor, text): the text is written into the store directly
_show_help(s, text) ==
    pop_to_buffer(mark_buffer_recent([s EXCEPT !.buffers = DictSet(@, HELP_BUFFER_NAME, text)],
                                     HELP_BUFFER_NAME),
                  HELP_BUFFER_NAME, TRUE)

\* the lines of the where-is command, joined
where_is_text(bindings, command_name) ==
    str_join(IF bindings = << >>
             THEN <<command_name \o <<" ","i","s"," ","n","o","t"," ","o","n"," ","a","n","y"," ","k","e","y"," ","i","n"," ","t","h","e"," ","c","u","r","r","e","n","t"," ","c","o","n","t","e","x","t",".">>>>
             ELSE <<command_name \o <<" ","i","s"," ","o","n",":">>, << >> >>
                  \o [i \in 1..Len(bindings) |->
                         str_ljust(format_key_sequence(bindings[i].sequence), 12) \o <<" ">>
                         \o _format_scope(bindings[i])],
             <<"\n">>)

\* the where-is command once ed.where_is has returned or raised
where_is_shown(r, command_name) ==
    IF r.exc # None THEN r
    ELSE Returned(_show_help(r.st, where_is_text(r.value, command_name)), TRUE,
                  "help: " \o Str(command_name))

\* where_is(ed, name) of commands/help.py
where_is_command(s, cmds, name) ==
    IF str_strip(name) = << >> THEN Raised(s, "ValueError", "usage: where-is <command-name>")
    ELSE where_is_shown(where_is(s, cmds, Str(str_strip(name)), None), str_strip(name))

\* info.fn(self, *args) for the commands the model runs; the value of a
\* command that returns a str is that text
command_fn(s, cmds, name, args) ==
    CASE name = "split-window-below" -> returns_None(split_selected_window(s, "below"))
      [] name = "split-window-right" -> returns_None(split_selected_window(s, "right"))
      [] name = "other-window" -> Returned(other_window(s), FALSE, None)
      [] name = "delete-window" -> returns_None(delete_window(s))
      [] name = "delete-other-windows" -> Returned(delete_other_windows(s), FALSE, None)
      [] name = "forward-char" ->
            Returned(set_current_cursor(current_cursor_state(s),
                                        current_cursor(s) + Max2(0, _parse_count(args))),
                     FALSE, None)
      [] name = "backward-char" ->
            Returned(set_current_cursor(current_cursor_state(s),
                                        current_cursor(s) - Max2(0, _parse_count(args))),
                     FALSE, None)
      [] name = "show-buffer" -> Returned(current_text_state(s), TRUE, Str(current_text(s)))
      [] name = "switch-to-buffer" -> switch_to_buffer(s, args[1])
      [] name = "list-buffers" -> list_buffers(s)
      [] name = "kill-buffer" -> kill_buffer_command(s, args)
      [] name = "insert" -> insert(s, args)
      [] name = "where-is" -> where_is_command(s, cmds, args[1])

WithRan(r, ran) ==
    [st |-> r.st, exc |-> r.exc, msg |-> r.msg, has_value |-> r.has_value,
     value |-> r.value, ran |-> ran]

\* Editor.run; no hook is registered, so the two emit calls do nothing
run(s, cmds, name, args) ==
    IF name \notin cmds
    THEN WithRan(Raised(s, "KeyError", "unknown command: " \o name), << >>)
    ELSE WithRan(command_fn(s, cmds, name, args), <<name>>)

\* a binding that is looked up and not run
resolved_not_run(resolved, cmds, args) ==
    IF resolved.exc # None THEN WithRan(resolved, << >>)
    ELSE WithRan(Returned(resolved.st, FALSE, None), << >>)

\* `return self.run(command_name, *args)`, unless resolve_key raised
run_resolved(resolved, cmds, args) ==
    IF resolved.exc # None THEN WithRan(resolved, << >>)
    ELSE run(resolved.st, cmds, resolved.value, args)

\* command_execute; key is the outcome of parse_key_sequence(sequence)
command_execute(s, cmds, key, args, buffer) ==
    run_resolved(resolve_key(s, key, buffer), cmds, args)

(***************************************************************************)
(* Editor.command: names registered after the builtin commands.  A        *)
(* function given at run time is modelled by its identity and docstring;   *)
(* called, it leaves the editor alone and returns its identity.            *)
(***************************************************************************)
_SOURCE_KINDS == {"builtin", "plugin", "runtime"}

\* the CommandInfo stored for a function; signature and module are read from
\* the function as doc is
CommandInfo(name, fn, source_kind) ==
    [name |-> name, fn |-> fn.id,
     doc |-> IF fn.doc = None THEN "(undocumented command)" ELSE fn.doc,
     source_kind |-> IF source_kind \in _SOURCE_KINDS THEN source_kind ELSE "runtime"]

\* a registration that keeps the entry a name already has
command_first_write_wins(cmds, infos, name, fn, source_kind) ==
    [commands |-> cmds \cup {name},
     command_infos |-> IF name \in DOMAIN infos THEN infos
                       ELSE DictSet(infos, name,
                                    CommandInfo(name, fn, IF source_kind = None THEN "runtime"
                                                          ELSE source_kind))]

\* Editor.command; _registration_source_kind is "runtime" outside a plugin load
command(cmds, infos, name, fn, source_kind) ==
    [commands |-> cmds \cup {name},
     command_infos |-> DictSet(infos, name,
                               CommandInfo(name, fn, IF source_kind = None THEN "runtime"
                                                     ELSE source_kind))]

\* Editor.run over the whole of _commands: the function stored last for the
\* name is called, a builtin one where the name was not registered again
run_registered(s, cmds, infos, name, args) ==
    IF name \in cmds /\ name \in DOMAIN infos
    THEN WithRan(Returned(s, TRUE, infos[name].fn), <<name>>)
    ELSE run(s, cmds, name, args)

\* `return self.run(command_name, *args)` of command_execute, unless
\* resolve_key raised
run_resolved_registered(resolved, cmds, infos, args) ==
    IF resolved.exc # None THEN WithRan(resolved, << >>)
    ELSE run_registered(resolved.st, cmds, infos, resolved.value, args)

(***************************************************************************)
(* UIController (ui/controller.py).  The operators take and return the     *)
(* record u of the editor and controller fields:                           *)
(*   state, commands            the Editor                                 *)
(*   pending_keys, status, ui_action, minibuffer_handler                   *)
(*   raised   the exception class leaving the call ("None": it returned)   *)
(*   trace    of the last key step: the key; pending_keys, the prompt      *)
(*            handler and state before it; the commands it ran and the     *)
(*            exception a command raised                                   *)
(***************************************************************************)
DEFAULT_EDIT_BINDINGS ==
    << <<<<"C","-","m">>, "newline">>,
       <<<<"D","E","L">>, "delete-backward-char">>,
       <<<<"C","-","d">>, "delete-forward-char">>,
       <<<<"C","-","f">>, "forward-char">>,
       <<<<"C","-","b">>, "backward-char">>,
       <<<<"C","-","a">>, "move-beginning-of-line">>,
       <<<<"C","-","e">>, "move-end-of-line">>,
       <<<<"C","-","n">>, "next-line">>,
       <<<<"C","-","p">>, "previous-line">>,
       <<<<"C","-","k">>, "kill-line">> >>

UI_ACTION_BINDINGS ==
    (<< <<"M","-","x">> >> :> "open-minibuffer")
    @@ (<< <<"C","-","q">> >> :> "quit")
    @@ (<< <<"C","-","x">>, <<"C","-","c">> >> :> "quit")

HELP_PROMPT_BINDINGS ==
    (<<"f">> :> <<"describe-command", "Describe command:">>)
    @@ (<<"k">> :> <<"describe-key", "Describe key:">>)
    @@ (<<"w">> :> <<"where-is", "Where is command:">>)

CTRL_X_COMMAND_BINDINGS ==
    (<<"2">> :> "split-window-below")
    @@ (<<"3">> :> "split-window-right")
    @@ (<<"o">> :> "other-window")
    @@ (<<"0">> :> "delete-window")
    @@ (<<"1">> :> "delete-other-windows")
    @@ (<<"C","-","b">> :> "list-buffers")

CTRL_X_PROMPT_BINDINGS ==
    (<<"b">> :> <<"switch-to-buffer", TRUE, "Switch to buffer:">>)
    @@ (<<"k">> :> <<"kill-buffer", FALSE, "Kill buffer:">>)

\* UIAction(name, prompt); NoAction is _ui_action = None
UIAction(name, prompt) == [name |-> name, prompt |-> prompt]
NoAction == [name |-> None, prompt |-> None]

\* the closure _handler is the pair it closes over; NoHandler is
\* _minibuffer_handler = None
_build_minibuffer_command_handler(command_name, require_arg) ==
    [command_name |-> command_name, require_arg |-> require_arg]
NoHandler == [command_name |-> None, require_arg |-> FALSE]

KeyTrace(key, pending, handler, s) ==
    [key |-> key, pending_keys |-> pending, minibuffer_handler |-> handler, state |-> s,
     ran |-> << >>, exc |-> None, msg |-> ""]

_set_status(u, message) == [u EXCEPT !.status = message]

\* the editor after a call that ended in r
AfterCall(u, r) ==
    [u EXCEPT !.state = r.st,
              !.trace.ran = @ \o r.ran,
              !.trace.exc = IF r.ran # << >> THEN r.exc ELSE @,
              !.trace.msg = IF r.ran # << >> THEN r.msg ELSE @]

\* a handler that catches KeyError alone
catches_KeyError_only(exc) == exc = "KeyError"

\* `except Exception`
is_Exception(exc) == exc \in ExceptionClasses

\* A hook is modelled by what a call of it does: it returns, it raises an
\* exception that is an Exception, or it raises one that is not (a
\* KeyboardInterrupt, a SystemExit).
HookKinds == {"returns", "raises RuntimeError", "raises KeyboardInterrupt"}

hook_raises(fn) ==
    CASE fn = "returns" -> None
      [] fn = "raises RuntimeError" -> "RuntimeError"
      [] fn = "raises KeyboardInterrupt" -> "KeyboardInterrupt"

\* fn(self, *args) called from emit as the i-th hook of the event
HookCall(event, i, fn, args) == [event |-> event, index |-> i, fn |-> fn, args |-> args]

\* info.fn(self, *args) called from run
CommandCall(name, args) == [event |-> "command", index |-> 0, fn |-> name, args |-> args]

\* an emit that the first hook that raises ends, the exception swallowed
emit_until_failure(fns, event, args, i) ==
    LET failing == {j \in i..Len(fns) : hook_raises(fns[j]) # None}
        stop == IF failing = {} THEN Len(fns)
                ELSE CHOOSE j \in failing : \A k \in failing : j <= k
    IN [calls |-> [j \in 1..(stop - i + 1) |-> HookCall(event, i + j - 1, fns[i + j - 1], args)],
        exc |-> None]

\* the loop of emit from the i-th hook on: the calls made, in order, and the
\* exception that left the loop; `except Exception` logs and goes on
RECURSIVE emit_from(_, _, _, _)
emit_from(fns, event, args, i) ==
    IF i > Len(fns) THEN [calls |-> << >>, exc |-> None]
    ELSE IF hook_raises(fns[i]) # None /\ ~is_Exception(hook_raises(fns[i]))
    THEN [calls |-> <<HookCall(event, i, fns[i], args)>>, exc |-> hook_raises(fns[i])]
    ELSE [calls |-> <<HookCall(event, i, fns[i], args)>>
                        \o emit_from(fns, event, args, i + 1).calls,
          exc |-> emit_from(fns, event, args, i + 1).exc]

\* an emit that calls no hook
emit_to_nobody(hks, event, args) == [calls |-> << >>, exc |-> None]

\* self._hooks.get(event, [])
emit(hks, event, args) ==
    emit_from(IF event \in DOMAIN hks THEN hks[event] ELSE << >>, event, args, 1)

\* what a call of run made happen: the result r of the call, and the hooks and
\* the command called, in order
Ran(r, calls) == [r |-> r, calls |-> calls]

\* run after the command function ended in r
run_after_command(hks, name, args, before, r) ==
    IF r.exc # None THEN Ran(r, before.calls \o <<CommandCall(name, args)>>)
    ELSE LET after == emit(hks, "after-command",
                           <<name, args, IF r.has_value THEN r.value ELSE None>>)
         IN IF after.exc # None
            THEN Ran(Raised(r.st, after.exc, ""),
                     before.calls \o <<CommandCall(name, args)>> \o after.calls)
            ELSE Ran(r, before.calls \o <<CommandCall(name, args)>> \o after.calls)

\* run after emit("before-command", name, args) ended in before
run_after_before(s, cmds, hks, name, args, before) ==
    IF before.exc # None THEN Ran(Raised(s, before.exc, ""), before.calls)
    ELSE run_after_command(hks, name, args, before, command_fn(s, cmds, name, args))

\* Editor.run with the hooks hks registered
run_notifying(s, cmds, hks, name, args) ==
    IF name \notin cmds
    THEN Ran(Raised(s, "KeyError", "unknown command: " \o name), << >>)
    ELSE run_after_before(s, cmds, hks, name, args, emit(hks, "before-command", <<name, args>>))

\* Editor.on
on(hks, event, fn) ==
    DictSet(hks, event, (IF event \in DOMAIN hks THEN hks[event] ELSE << >>) \o <<fn>>)

_bind_default_edit_keys(s, cmds) ==
    LET RECURSIVE bind_from(_, _)
        bind_from(st, i) ==
            IF i > Len(DEFAULT_EDIT_BINDINGS) THEN st
            ELSE LET key == parse_key_sequence(DEFAULT_EDIT_BINDINGS[i][1])
                     command_name == DEFAULT_EDIT_BINDINGS[i][2]
                 IN IF ~key.ok THEN bind_from(st, i + 1)
                    ELSE IF key.value \in DOMAIN st.global_keymap THEN bind_from(st, i + 1)
                    ELSE LET r == bind_key(st, cmds, parse_key_sequence_of_list(key.value),
                                           command_name, "global", None, None)
                         IN bind_from(r.st, i + 1)
    IN bind_from(s, 1)

\* a UI table lookup that takes every sequence for a prefix
every_sequence_is_ui_prefix(sequence) == TRUE

_has_ui_prefix(sequence) ==
    \/ \E bound \in DOMAIN UI_ACTION_BINDINGS : IsStrictPrefix(sequence, bound)
    \/ \E subkey \in DOMAIN HELP_PROMPT_BINDINGS :
           IsStrictPrefix(sequence, << <<"C","-","h">>, subkey >>)
    \/ \E subkey \in DOMAIN CTRL_X_COMMAND_BINDINGS :
           IsStrictPrefix(sequence, << <<"C","-","x">>, subkey >>)
    \/ \E subkey \in DOMAIN CTRL_X_PROMPT_BINDINGS :
           IsStrictPrefix(sequence, << <<"C","-","x">>, subkey >>)

_action_status(action) ==
    IF action = "open-minibuffer" THEN "open minibuffer"
    ELSE IF action = "cancel-minibuffer" THEN "cancelled"
    ELSE IF action = "quit" THEN "quit requested"
    ELSE action

\* the except clauses and the final status of execute_key, for the call of
\* command_execute that ended in r
execute_key_status(u, sequence, r) ==
    IF r.exc = "KeyError" THEN _set_status(AfterCall(u, r), r.msg)
    ELSE IF is_Exception(r.exc) THEN _set_status(AfterCall(u, r), "command error: " \o r.msg)
    ELSE IF r.exc # None THEN [AfterCall(u, r) EXCEPT !.raised = r.exc]
    ELSE IF ~r.has_value THEN _set_status(AfterCall(u, r), "executed " \o Str(sequence))
    ELSE _set_status(AfterCall(u, r), r.value)

execute_key(u, sequence, args) ==
    execute_key_status([u EXCEPT !.pending_keys = << >>, !.ui_action = NoAction], sequence,
                       command_execute(u.state, u.commands, parse_key_sequence(sequence),
                                       args, None))

\* the except clauses and the final status of _run_editor_command, for the
\* call of run that ended in r
run_editor_command_status(u, command_name, r) ==
    IF r.exc = "KeyError" THEN _set_status(AfterCall(u, r), r.msg)
    ELSE IF r.exc = "ValueError" THEN _set_status(AfterCall(u, r), r.msg)
    ELSE IF is_Exception(r.exc) THEN _set_status(AfterCall(u, r), "command error: " \o r.msg)
    ELSE IF r.exc # None THEN [AfterCall(u, r) EXCEPT !.raised = r.exc]
    ELSE IF ~r.has_value THEN _set_status(AfterCall(u, r), "ran " \o command_name)
    ELSE _set_status(AfterCall(u, r), r.value)

_run_editor_command(u, command_name) ==
    run_editor_command_status(u, command_name, run(u.state, u.commands, command_name, << >>))

\* the unbound outcome, keeping the candidate pending
report_unbound_keeping_pending(u, candidate) ==
    _set_status([u EXCEPT !.pending_keys = candidate],
                "unbound key sequence: " \o Str(format_key_sequence(candidate)))

\* the unbound outcome of the three dispatch routines
report_unbound(u, candidate) ==
    _set_status([u EXCEPT !.pending_keys = << >>],
                "unbound key sequence: " \o Str(format_key_sequence(candidate)))

\* the UI action outcome of _dispatch_single_key and _handle_ctrl_x_prefix
request_action(u, action) ==
    _set_status([u EXCEPT !.pending_keys = << >>, !.ui_action = UIAction(action, None)],
                _action_status(action))

\* the prompt outcome of _handle_help_prefix and _handle_ctrl_x_prefix
open_prompt(u, command_name, require_arg, prompt) ==
    _set_status([u EXCEPT !.pending_keys = << >>,
                          !.minibuffer_handler =
                              _build_minibuffer_command_handler(command_name, require_arg),
                          !.ui_action = UIAction("open-minibuffer", prompt)],
                prompt)

_handle_help_prefix(u, candidate) ==
    IF candidate[2] \notin DOMAIN HELP_PROMPT_BINDINGS THEN report_unbound(u, candidate)
    ELSE open_prompt(u, HELP_PROMPT_BINDINGS[candidate[2]][1], TRUE,
                     HELP_PROMPT_BINDINGS[candidate[2]][2])

_handle_ctrl_x_prefix(u, candidate) ==
    IF candidate[2] \in DOMAIN CTRL_X_COMMAND_BINDINGS
    THEN _run_editor_command([u EXCEPT !.pending_keys = << >>],
                             CTRL_X_COMMAND_BINDINGS[candidate[2]])
    ELSE IF candidate[2] \in DOMAIN CTRL_X_PROMPT_BINDINGS
    THEN open_prompt(u, CTRL_X_PROMPT_BINDINGS[candidate[2]][1],
                     CTRL_X_PROMPT_BINDINGS[candidate[2]][2],
                     CTRL_X_PROMPT_BINDINGS[candidate[2]][3])
    ELSE IF candidate \in DOMAIN UI_ACTION_BINDINGS
    THEN request_action(u, UI_ACTION_BINDINGS[candidate])
    ELSE report_unbound(u, candidate)

\* the cancel branch, leaving the prompt handler installed
cancel_keeping_handler(u) ==
    _set_status([u EXCEPT !.pending_keys = << >>,
                          !.ui_action = UIAction("cancel-minibuffer", None)],
                "cancelled")

\* the C-g branch of _dispatch_single_key
cancel(u) ==
    _set_status([u EXCEPT !.pending_keys = << >>,
                          !.minibuffer_handler = NoHandler,
                          !.ui_action = UIAction("cancel-minibuffer", None)],
                "cancelled")

\* _dispatch_single_key after has_prefix_binding ended in prefix
dispatch_unresolved(u, candidate, prefix) ==
    IF prefix.exc # None THEN [u EXCEPT !.state = prefix.st, !.raised = prefix.exc]
    ELSE IF prefix.value \/ _has_ui_prefix(candidate)
    THEN _set_status([u EXCEPT !.state = prefix.st, !.pending_keys = candidate],
                     "pending " \o Str(format_key_sequence(candidate)))
    ELSE report_unbound([u EXCEPT !.state = prefix.st], candidate)

\* _dispatch_single_key after resolve_key ended in resolved: `except KeyError`
\* makes command_name None
dispatch_resolved(u, candidate, resolved) ==
    IF resolved.exc \notin {None, "KeyError"}
    THEN [u EXCEPT !.state = resolved.st, !.raised = resolved.exc]
    ELSE IF resolved.exc = None
    THEN execute_key([u EXCEPT !.state = resolved.st, !.pending_keys = << >>],
                     format_key_sequence(candidate), << >>)
    ELSE dispatch_unresolved([u EXCEPT !.state = resolved.st], candidate,
                             has_prefix_binding(resolved.st,
                                                parse_key_sequence_of_list(candidate), None))

\* _dispatch_single_key from `candidate = tuple([*self._pending_keys, key])`
dispatch_candidate(u, candidate) ==
    IF Len(candidate) = 2 /\ candidate[1] = <<"C","-","h">>
    THEN _handle_help_prefix(u, candidate)
    ELSE IF Len(candidate) = 2 /\ candidate[1] = <<"C","-","x">>
    THEN _handle_ctrl_x_prefix(u, candidate)
    ELSE IF candidate \in DOMAIN UI_ACTION_BINDINGS
    THEN request_action(u, UI_ACTION_BINDINGS[candidate])
    ELSE dispatch_resolved(u, candidate,
                           resolve_key(u.state, parse_key_sequence_of_list(candidate), None))

_dispatch_single_key(u, key) ==
    IF key = <<"C","-","g">>
    THEN cancel([u EXCEPT !.trace = KeyTrace(key, u.pending_keys, u.minibuffer_handler,
                                             u.state)])
    ELSE dispatch_candidate([u EXCEPT !.trace = KeyTrace(key, u.pending_keys,
                                                         u.minibuffer_handler, u.state),
                                      !.ui_action = NoAction],
                            Append(u.pending_keys, key))

\* the loop of dispatch_key_chord; an exception leaving a key step ends it
RECURSIVE dispatch_keys(_, _)
dispatch_keys(u, keys) ==
    IF keys = << >> \/ u.raised # None THEN u
    ELSE dispatch_keys(_dispatch_single_key(u, keys[1]), Tail(keys))

\* dispatch_key_chord after parse_key_sequence ended in sequence
dispatch_parsed(u, sequence) ==
    IF ~sequence.ok
    THEN _set_status([u EXCEPT !.pending_keys = << >>, !.ui_action = NoAction], sequence.msg)
    ELSE dispatch_keys(u, sequence.value)

dispatch_key_chord(u, chord) == dispatch_parsed(u, parse_key_sequence(chord))

\* handle_text_input after run("insert", text) ended in r: the call is not
\* inside a try, so an exception leaves the method
text_input_status(u, text, r) ==
    IF r.exc # None THEN [AfterCall(u, r) EXCEPT !.raised = r.exc]
    ELSE IF text = <<"\n">> THEN _set_status(AfterCall(u, r), "inserted newline")
    ELSE _set_status(AfterCall(u, r),
                     "inserted " \o Str(str_of_int(Len(text))) \o " char(s)")

handle_text_input(u, text) ==
    IF text = << >> THEN u
    ELSE text_input_status([u EXCEPT !.pending_keys = << >>, !.ui_action = NoAction], text,
                           run(u.state, u.commands, "insert", <<text>>))

(***************************************************************************)
(* The minibuffer: a submitted line goes to the prompt handler, if one is  *)
(* installed, and to the command grammar otherwise.  Lines hold no quote   *)
(* and no backslash, so shlex.split cuts them at runs of whitespace.       *)
(***************************************************************************)
\* sep.join(names) for names kept as strings
RECURSIVE join_names(_, _)
join_names(names, sep) ==
    IF names = << >> THEN ""
    ELSE IF Len(names) = 1 THEN names[1]
    ELSE names[1] \o sep \o join_names(Tail(names), sep)

\* sorted(self._commands), for the names the model registers
SortedCommandNames ==
    <<"backward-char", "delete-backward-char", "delete-forward-char",
      "delete-other-windows", "delete-window", "describe-command", "describe-key",
      "forward-char", "get", "insert", "kill-buffer", "kill-line", "list-buffers",
      "move-beginning-of-line", "move-end-of-line", "newline", "next-line",
      "other-window", "plug", "previous-line", "set", "show-buffer",
      "split-window-below", "split-window-right", "switch-to-buffer", "where-is">>

\* the except clauses of execute_minibuffer for an editor call that ended
\* in r, and the status `done` of the verb when the call returned
grammar_status(u, r, done) ==
    IF r.exc \in {"KeyError", "ValueError"} THEN _set_status([u EXCEPT !.state = r.st], r.msg)
    ELSE IF is_Exception(r.exc)
    THEN _set_status([u EXCEPT !.state = r.st], "command error: " \o r.msg)
    ELSE IF r.exc # None THEN [u EXCEPT !.state = r.st, !.raised = r.exc]
    ELSE _set_status([u EXCEPT !.state = r.st], done)

_run_command(u, args) ==
    IF args = << >> THEN _set_status(u, "usage: run <cmd> [args...]")
    ELSE run_editor_command_status(u, Str(args[1]),
                                   run(u.state, u.commands, Str(args[1]), Tail(args)))

BIND_USAGE == "usage: bind <key> <cmd> [global|buffer|mode:<name>]"

_bind_command(u, args) ==
    IF Len(args) < 2 THEN _set_status(u, BIND_USAGE)
    ELSE
    LET key == args[1]
        command_name == Str(args[2])
        scope_spec == IF Len(args) >= 3 THEN args[3] ELSE <<"g","l","o","b","a","l">>
        bound == "bound " \o Str(key) \o " -> " \o command_name
    IN IF scope_spec = <<"g","l","o","b","a","l">>
       THEN grammar_status(u, bind_key(u.state, u.commands, parse_key_sequence(key),
                                       command_name, "global", None, None),
                           bound \o " (global)")
       ELSE IF scope_spec = <<"b","u","f","f","e","r">>
       THEN LET r == bind_key(u.state, u.commands, parse_key_sequence(key),
                              command_name, "buffer", None, None)
            IN grammar_status(u, r, bound \o " (buffer:" \o selected_buffer(r.st) \o ")")
       ELSE IF Len(scope_spec) >= 5 /\ SubSeq(scope_spec, 1, 5) = <<"m","o","d","e",":">>
       THEN LET mode == Str(SubSeq(scope_spec, 6, Len(scope_spec)))
            IN IF mode = "" THEN _set_status(u, BIND_USAGE)
               ELSE grammar_status(u, bind_key(u.state, u.commands, parse_key_sequence(key),
                                               command_name, "mode", None, mode),
                                   bound \o " (mode:" \o mode \o ")")
       ELSE _set_status(u, BIND_USAGE)

_press_command(u, args) ==
    IF args = << >> THEN _set_status(u, "usage: press <key> [args...]")
    ELSE IF Tail(args) # << >> THEN execute_key(u, args[1], Tail(args))
    ELSE dispatch_key_chord(u, args[1])

_mode_command(u, args) ==
    IF args = << >> THEN _set_status(u, "usage: mode <name> [on|off]")
    ELSE
    LET mode == Str(args[1])
        action == IF Len(args) >= 2 THEN args[2] ELSE <<"o","n">>
    IN IF action = <<"o","n">>
       THEN _set_status([u EXCEPT !.state = enable_mode(u.state, mode, None)],
                        "mode " \o mode \o ": on")
       ELSE IF action = <<"o","f","f">>
       THEN _set_status([u EXCEPT !.state = disable_mode(u.state, mode, None)],
                        "mode " \o mode \o ": off")
       ELSE _set_status(u, "usage: mode <name> [on|off]")

\* the verbs of execute_minibuffer for the line cut into parts
execute_parts(u, parts) ==
    IF parts = << >> THEN _set_status(u, "empty command")
    ELSE
    LET cmd == parts[1]
        args == Tail(parts)
    IN IF cmd = <<"r","u","n">> THEN _run_command(u, args)
       ELSE IF cmd = <<"b","i","n","d">> THEN _bind_command(u, args)
       ELSE IF cmd = <<"p","r","e","s","s">> THEN _press_command(u, args)
       ELSE IF cmd = <<"m","o","d","e">> THEN _mode_command(u, args)
       ELSE IF cmd = <<"m","o","d","e","s">>
       THEN LET s1 == selected_buffer_state(u.state)
                modes == DictGet(s1.buffer_modes, selected_buffer(s1), << >>)
            IN _set_status([u EXCEPT !.state = s1],
                           IF modes # << >> THEN join_names(modes, ", ") ELSE "(none)")
       ELSE IF cmd = <<"b","u","f">>
       THEN _set_status([u EXCEPT !.state = selected_buffer_state(u.state)],
                        selected_buffer(u.state))
       ELSE IF cmd = <<"c","o","m","m","a","n","d","s">>
       THEN _set_status(u, join_names(SelectSeq(SortedCommandNames,
                                                LAMBDA name : name \in u.commands), " "))
       ELSE IF cmd = <<"h","e","l","p">>
       THEN _set_status(u, "commands: run bind press mode modes buf commands help")
       ELSE _set_status(u, "unknown command: " \o Str(cmd))

execute_minibuffer(u, line) == execute_parts(u, str_split(line))

\* _handler(raw_value) of _build_minibuffer_command_handler
_handler(u, handler, raw_value) ==
    LET value == str_strip(raw_value)
    IN IF handler.require_arg /\ value = << >>
       THEN _set_status(u, "usage: " \o handler.command_name \o " <arg>")
       ELSE run_editor_command_status(
                u, handler.command_name,
                run(u.state, u.commands, handler.command_name,
                    IF value # << >> THEN <<value>> ELSE << >>))

\* a submission that goes to the grammar whatever handler is installed
submit_to_grammar(u, line) ==
    execute_minibuffer([u EXCEPT !.minibuffer_handler = NoHandler], line)

handle_minibuffer_submit(u, line) ==
    IF u.minibuffer_handler # NoHandler
    THEN _handler([u EXCEPT !.minibuffer_handler = NoHandler], u.minibuffer_handler,
                  str_strip(line))
    ELSE execute_minibuffer([u EXCEPT !.minibuffer_handler = NoHandler], line)

(***************************************************************************)
(* UIController.snapshot: the window snapshots in layout order, the layout *)
(* and the status.  Reading a cursor stores it clamped, so the snapshot    *)
(* also gives the state it leaves.                                         *)
(***************************************************************************)
\* `text.rfind("\n", 0, cursor) + 1`
line_start_of(text, cursor) ==
    LET breaks == {i \in 1..Min2(cursor, Len(text)) : text[i] = "\n"}
    IN IF breaks = {} THEN 0 ELSE CHOOSE i \in breaks : \A j \in breaks : j <= i

\* `text.count("\n", 0, cursor) + 1`
line_of(text, cursor) ==
    Cardinality({i \in 1..Min2(cursor, Len(text)) : text[i] = "\n"}) + 1

WindowSnapshot(s, window_id, cursor, selected) ==
    [window_id |-> window_id,
     buffer |-> window_buffer(s, window_id),
     text |-> s.buffers[window_buffer(s, window_id)],
     cursor |-> cursor,
     line |-> line_of(s.buffers[window_buffer(s, window_id)], cursor),
     col |-> cursor - line_start_of(s.buffers[window_buffer(s, window_id)], cursor) + 1,
     modes |-> DictGet(s.buffer_modes, window_buffer(s, window_id), << >>),
     selected |-> window_id = selected]

\* a loop that marks the first window of the list as the selected one
RECURSIVE snapshot_windows_first_selected(_, _, _)
snapshot_windows_first_selected(s, ids, selected) ==
    IF ids = << >> THEN [st |-> s, windows |-> << >>]
    ELSE [st |-> snapshot_windows_first_selected(window_cursor_state(s, ids[1]), Tail(ids),
                                                 0).st,
          windows |->
              <<WindowSnapshot(window_cursor_state(s, ids[1]), ids[1],
                               window_cursor(s, ids[1]),
                               IF selected = 0 THEN 0 ELSE ids[1])>>
              \o snapshot_windows_first_selected(window_cursor_state(s, ids[1]), Tail(ids),
                                                 0).windows]

\* the loop of snapshot over window_list()
RECURSIVE snapshot_windows(_, _, _)
snapshot_windows(s, ids, selected) ==
    IF ids = << >> THEN [st |-> s, windows |-> << >>]
    ELSE [st |-> snapshot_windows(window_cursor_state(s, ids[1]), Tail(ids), selected).st,
          windows |->
              <<WindowSnapshot(window_cursor_state(s, ids[1]), ids[1],
                               window_cursor(s, ids[1]), selected)>>
              \o snapshot_windows(window_cursor_state(s, ids[1]), Tail(ids),
                                  selected).windows]

\* _layout_from_tree(layout_tree()) from a reference
RECURSIVE _layout_from_tree(_, _)
_layout_from_tree(s, ref) ==
    IF ref[1] = "window" THEN [kind |-> "window", window_id |-> ref[2]]
    ELSE [kind |-> "split", axis |-> s.splits[ref[2]].axis,
          first |-> _layout_from_tree(s, s.splits[ref[2]].first),
          second |-> _layout_from_tree(s, s.splits[ref[2]].second)]

\* snapshot(); st is the editor state the reads leave
snapshot(s, message) ==
    [st |-> snapshot_windows(s, window_list(s), s.selected_window_id).st,
     value |->
         [selected_window_id |-> s.selected_window_id,
          windows |-> snapshot_windows(s, window_list(s), s.selected_window_id).windows,
          layout |-> _layout_from_tree(s, s.layout_root),
          status |-> message]]

(***************************************************************************)
(* The history variable `last`.                                            *)
(***************************************************************************)
\* op: the call; arg: its argument; exc: the exception the call raised to its
\* caller ("None": it returned); pre: Editor.state before the call.
Call(op, arg, exc, pre) == [op |-> op, arg |-> arg, exc |-> exc, pre |-> pre]

\* The pre-state is recorded for the calls whose effect is stated against it,
\* and of it the fields the statement reads.
NoPre == << >>
BufferView(s) ==
    [windows |-> s.windows, buffer_history |-> s.buffer_history, buffer_names |-> DOMAIN s.buffers]

UNCHANGED_CONTROLLER ==
    UNCHANGED <<commands, hooks, command_infos, pending_keys, status, ui_action,
                minibuffer_handler>>

UNCHANGED_UI == UNCHANGED_CONTROLLER /\ UNCHANGED mode_history

Init ==
    /\ state = _bind_default_edit_keys(InitialEditorState, BuiltinCommands)
    /\ commands = BuiltinCommands
    /\ pending_keys = << >>
    /\ status = "ready"
    /\ ui_action = NoAction
    /\ minibuffer_handler = NoHandler
    /\ last = Call("init", "", None, NoPre)
    /\ mode_history = << >>
    /\ hooks = << >>
    /\ command_infos = << >>

(***************************************************************************)
(* Workspace actions: one per EditorState operation, called directly.  The *)
(* sets the arguments are drawn from are parameters, so that each          *)
(* specification states the inputs it explores.                            *)
(***************************************************************************)
\* Axes a caller may pass, one of them invalid
AxisInputs == Axes \cup {"diagonal"}

TotalText(s) ==
    LET RECURSIVE Sum(_)
        Sum(names) == IF names = {} THEN 0
                      ELSE LET n == CHOOSE n \in names : TRUE
                           IN Len(s.buffers[n]) + Sum(names \ {n})
    IN Sum(DOMAIN s.buffers)

SplitSelectedWindow(axes, max_id) ==
    \E axis \in axes :
        LET r == split_selected_window(state, axis)
        IN /\ state.next_window_id <= max_id
           /\ state' = r.st
           /\ last' = Call("split_selected_window", axis, r.exc, NoPre)
           /\ UNCHANGED_UI

OtherWindow ==
    /\ state' = other_window(state)
    /\ last' = Call("other_window", "", None, NoPre)
    /\ UNCHANGED_UI

DeleteWindow ==
    LET r == delete_window(state)
    IN /\ state' = r.st
       /\ last' = Call("delete_window", "", r.exc, NoPre)
       /\ UNCHANGED_UI

DeleteOtherWindows ==
    /\ state' = delete_other_windows(state)
    /\ last' = Call("delete_other_windows", "", None, NoPre)
    /\ UNCHANGED_UI

SwitchBuffer(names) ==
    \E name \in names :
        /\ state' = set_selected_buffer(state, name)
        /\ last' = Call("switch_buffer", name, None, NoPre)
        /\ UNCHANGED_UI

PopToBuffer(names, preferences) ==
    \E name \in names, prefer_other \in preferences :
        /\ state' = pop_to_buffer(state, name, prefer_other)
        /\ last' = Call("pop_to_buffer", name, None, [prefer_other |-> prefer_other])
        /\ UNCHANGED_UI

KillBuffer(names) ==
    \E name \in names :
        \E dict_first \in RecentFallbacks([state EXCEPT !.buffers = DictPop(@, name)], {name}) :
            LET r == kill_buffer(state, name, dict_first)
            IN /\ state' = r.st
               /\ last' = Call("kill_buffer", name, r.exc, BufferView(state))
               /\ UNCHANGED_UI

Insert ==
    \E c \in Chars :
        /\ TotalText(state) < MaxTotalText
        /\ state' = _insert_text(state, <<c>>)
        /\ last' = Call("insert", c, None, NoPre)
        /\ UNCHANGED_UI

\* The layout tree under every structural and buffer operation.
NextLayout ==
    \/ SplitSelectedWindow(AxisInputs, MaxWindowId)
    \/ OtherWindow
    \/ DeleteWindow
    \/ DeleteOtherWindows
    \/ SwitchBuffer(LayoutBufNames)
    \/ PopToBuffer(LayoutBufNames, BOOLEAN)
    \/ KillBuffer(LayoutBufNames)

SpecLayout == Init /\ [][NextLayout]_vars

\* The buffer lifecycle: three buffer names, text, fewer windows.  The buffers
\* of the windows other than the selected one are changed through pop_to_buffer.
NextBuffers ==
    \/ SplitSelectedWindow({"below"}, MaxBufferWindowId)
    \/ SwitchBuffer(BufNames)
    \/ PopToBuffer(BufNames, {TRUE})
    \/ KillBuffer(BufNames)
    \/ Insert

SpecBuffers == Init /\ [][NextBuffers]_vars

(***************************************************************************)
(* Key dispatch: chords arrive through dispatch_key_chord while bindings   *)
(* are added and the selected window changes buffer.                       *)
(***************************************************************************)
\* the controller and its editor, as the record the operators work on
Controller ==
    [state |-> state, commands |-> commands, pending_keys |-> pending_keys,
     status |-> status, ui_action |-> ui_action, minibuffer_handler |-> minibuffer_handler,
     raised |-> None, trace |-> KeyTrace(<< >>, pending_keys, minibuffer_handler, state)]

\* Chord strings sent where the keymaps are the subject: the cancel key, the
\* two UI prefixes, a UI action, a user prefix, sub-keys, a default edit key,
\* a two-chord string, an alias spelling and two strings the codec rejects.
KeymapChords ==
    { <<"C","-","g">>, <<"C","-","x">>, <<"C","-","h">>, <<"M","-","x">>, <<"C","-","c">>,
      <<"a">>, <<"b">>, <<"f">>, <<"0">>, <<"C","-","f">>,
      <<"C","-","c"," ","a">>, <<"c","t","r","l","-","X">>, <<"Q","-","a">>, <<" ">> }

\* Chord strings sent where the windows are the subject: the sub-keys of the
\* C-x window commands (splits are taken along one axis), a user prefix and
\* its sub-key, a default edit key and a two-chord string.
WindowChords ==
    { <<"C","-","g">>, <<"C","-","x">>, <<"C","-","c">>, <<"a">>,
      <<"2">>, <<"0">>, <<"1">>, <<"o">>, <<"C","-","f">>,
      <<"C","-","x"," ","2">> }

\* The calls of bind_key where the keymaps are the subject: a sequence under a
\* user prefix in the keymap of the selected buffer, two sequences under the
\* UI prefix C-x in the global keymap, and a command that is not registered.
BindInputs ==
    { <<<<"C","-","c"," ","a">>, "delete-window", "buffer">>,
      <<<<"C","-","x"," ","f">>, "show-buffer", "global">>,
      <<<<"C","-","x"," ","f"," ","b">>, "show-buffer", "global">>,
      <<<<"C","-","c"," ","b">>, "no-such-command", "global">> }

\* The call of bind_key where the windows are the subject.
WindowBindInputs == { <<<<"C","-","c"," ","a">>, "delete-window", "global">> }

DispatchBufNames == {SCRATCH, "a"}

DispatchKeyChord(chords, max_id) ==
    \E chord \in chords :
        \E u \in {dispatch_key_chord(Controller, chord)} :
            /\ u.state.next_window_id <= max_id + 1
            /\ state' = u.state
            /\ pending_keys' = u.pending_keys
            /\ status' = u.status
            /\ ui_action' = u.ui_action
            /\ minibuffer_handler' = u.minibuffer_handler
            /\ last' = Call("dispatch_key_chord", chord, u.raised, u.trace)
            /\ UNCHANGED <<commands, mode_history, hooks, command_infos>>

BindKey(inputs) ==
    \E input \in inputs :
        \E r \in {bind_key(state, commands, parse_key_sequence(input[1]), input[2],
                           input[3], None, None)} :
            /\ state' = r.st
            /\ last' = Call("bind_key", input[1], r.exc, NoPre)
            /\ UNCHANGED_UI

\* Key dispatch over the scoped keymaps: no chord splits a window.
NextDispatch ==
    \/ DispatchKeyChord(KeymapChords, MaxDispatchWindowId)
    \/ BindKey(BindInputs)
    \/ SwitchBuffer(DispatchBufNames)

SpecDispatch == Init /\ [][NextDispatch]_vars

\* Key dispatch over the window commands of the C-x sub-table.
NextDispatchWindows ==
    \/ DispatchKeyChord(WindowChords, MaxDispatchWindowId)
    \/ BindKey(WindowBindInputs)
    \/ Insert

SpecDispatchWindows == Init /\ [][NextDispatchWindows]_vars

(***************************************************************************)
(* The layout tree (C1).                                                   *)
(***************************************************************************)
(* The scoped keymaps: bindings are added in the three scopes, modes are   *)
(* enabled and disabled, and the resolver is queried.                      *)
(***************************************************************************)
ModeNames == {"m1", "m2"}

\* The `buffer` argument of the mode calls (None: the selected buffer) and of
\* the queries (the selected buffer and another one).
ModeBuffers == {None}
QueryBuffers == {None, "a"}

\* The sequences the resolver is asked about: one bound in every scope, a
\* longer one that starts with it, and one that is never bound.
ResolverSequences == { <<"C","-","t">>, <<"C","-","t"," ","a">>, <<"C","-","z">> }

\* The calls of bind_key: <<sequence, command, scope, buffer, mode>>.  One
\* sequence in the global table, in the table of the selected buffer and in
\* the tables of two modes; a longer sequence in the table of another buffer
\* and in the table of a mode; a command that is not registered, in each scope;
\* a mode scope without a mode name and a scope that does not exist.
ScopedBindInputs ==
    { <<<<"C","-","t">>, "show-buffer", "global", None, None>>,
      <<<<"C","-","t">>, "forward-char", "buffer", None, None>>,
      <<<<"C","-","t">>, "backward-char", "mode", None, "m1">>,
      <<<<"C","-","t">>, "other-window", "mode", None, "m2">>,
      <<<<"C","-","t"," ","a">>, "show-buffer", "buffer", "a", None>>,
      <<<<"C","-","t"," ","a">>, "show-buffer", "mode", None, "m2">>,
      <<<<"C","-","z">>, "no-such-command", "global", None, None>>,
      <<<<"C","-","z">>, "no-such-command", "buffer", None, None>>,
      <<<<"C","-","z">>, "no-such-command", "mode", None, "m1">>,
      <<<<"C","-","z">>, "show-buffer", "mode", None, None>>,
      <<<<"C","-","z">>, "show-buffer", "window", None, None>> }

\* the three binding tables
KeymapView(s) ==
    [global_keymap |-> s.global_keymap, buffer_keymaps |-> s.buffer_keymaps,
     mode_keymaps |-> s.mode_keymaps]

BindScopedKey(inputs) ==
    \E input \in inputs :
        \E r \in {bind_key(state, commands, parse_key_sequence(input[1]), input[2],
                           input[3], input[4], input[5])} :
            /\ state' = r.st
            /\ last' = Call("bind_key", input[1], r.exc,
                            [command_name |-> input[2], keymaps |-> KeymapView(state),
                             msg |-> r.msg])
            /\ UNCHANGED_UI

\* The history of the mode calls made for a buffer: the modes now enabled,
\*   latest  in the order of the last enable_mode call that named each;
\*   since   in the order of the enable_mode calls that found each disabled.
NoModeCalls == [latest |-> << >>, since |-> << >>]
ModeHistory(target) == DictGet(mode_history, target, NoModeCalls)

EnableCalled(history, mode) ==
    [latest |-> Append(Without(history.latest, mode), mode),
     since  |-> IF mode \in Range(history.since) THEN history.since
                ELSE Append(history.since, mode)]

DisableCalled(history, mode) ==
    [latest |-> Without(history.latest, mode), since |-> Without(history.since, mode)]

EnableMode(modes, buffers) ==
    \E mode \in modes, buffer \in buffers :
        \E target \in {target_buffer(state, buffer)} :
            /\ state' = enable_mode(state, mode, buffer)
            /\ mode_history' =
                   DictSet(mode_history, target, EnableCalled(ModeHistory(target), mode))
            /\ last' = Call("enable_mode", mode, None, NoPre)
            /\ UNCHANGED_CONTROLLER

DisableMode(modes, buffers) ==
    \E mode \in modes, buffer \in buffers :
        \E target \in {target_buffer(state, buffer)} :
            /\ state' = disable_mode(state, mode, buffer)
            /\ mode_history' =
                   DictSet(mode_history, target, DisableCalled(ModeHistory(target), mode))
            /\ last' = Call("disable_mode", mode, None, NoPre)
            /\ UNCHANGED_CONTROLLER

\* describe_key(sequence, buffer=buffer); the call is recorded with the buffer
\* it resolved for and the KeyBindingInfo it returned
DescribeKey(sequences, buffers) ==
    \E sequence \in sequences, buffer \in buffers :
        \E r \in {describe_key(state, parse_key_sequence(sequence), buffer)} :
            /\ state' = r.st
            /\ last' = Call("describe_key", sequence, r.exc,
                            [buffer |-> target_buffer(state, buffer), value |-> r.value])
            /\ UNCHANGED_UI

\* has_prefix_binding(sequence, buffer=buffer), recorded the same way
HasPrefixBinding(sequences, buffers) ==
    \E sequence \in sequences, buffer \in buffers :
        \E r \in {has_prefix_binding(state, parse_key_sequence(sequence), buffer)} :
            /\ state' = r.st
            /\ last' = Call("has_prefix_binding", sequence, r.exc,
                            [buffer |-> target_buffer(state, buffer), value |-> r.value])
            /\ UNCHANGED_UI

NextKeymaps ==
    \/ BindScopedKey(ScopedBindInputs)
    \/ EnableMode(ModeNames, ModeBuffers)
    \/ DisableMode(ModeNames, ModeBuffers)
    \/ DescribeKey(ResolverSequences, QueryBuffers)
    \/ HasPrefixBinding(ResolverSequences, QueryBuffers)

SpecKeymaps == Init /\ [][NextKeymaps]_vars

(***************************************************************************)
(* The editor commands, run by name through Editor.run in one window: the  *)
(* commands that write text (insert, list-buffers, where-is), move the     *)
(* cursor, and kill the buffer shown.                                      *)
(***************************************************************************)
\* The calls of Editor.run: <<name, args>>.
CommandInputs ==
    { <<"insert", <<<<"x">>>> >>,
      <<"forward-char", <<500>> >>,
      <<"backward-char", <<500>> >>,
      <<"list-buffers", << >> >>,
      <<"where-is", <<<<"i","n","s","e","r","t">>>> >>,
      <<"where-is", <<<<"d","e","l","e","t","e","-","o","t","h","e","r","-","w","i","n","d","o","w","s">>>> >>,
      <<"where-is", <<<<"f","o","r","w","a","r","d","-","c","h","a","r">>>> >>,
      <<"where-is", <<<<"n","o","-","s","u","c","h","-","c","o","m","m","a","n","d">>>> >>,
      <<"where-is", <<<<" ">>>> >>,
      <<"kill-buffer", << >> >> }

\* the buffers whose text a command writes
GeneratedBuffers == {BUFFER_LIST_NAME, HELP_BUFFER_NAME}

\* the characters held by the other buffers
TypedText(s) == TotalText([s EXCEPT !.buffers = [b \in DOMAIN @ \ GeneratedBuffers |-> @[b]]])

\* insert is run in a buffer that no command writes, up to max_text characters
RunCommand(inputs, max_text) ==
    \E input \in inputs :
        \E r \in {run(state, commands, input[1], input[2])} :
            /\ input[1] = "insert" =>
                   /\ selected_buffer(state) \notin GeneratedBuffers
                   /\ TypedText(state) < max_text
            /\ state' = r.st
            /\ last' = Call("run", input[1], r.exc, [args |-> input[2], value |-> r.value])
            /\ UNCHANGED_UI

NextCommands == RunCommand(CommandInputs, MaxTotalText)

SpecCommands == Init /\ [][NextCommands]_vars

(***************************************************************************)
(* Window surgery: the structural operations called one after another on   *)
(* layouts of up to MaxWindowId windows, with two buffers and text so that *)
(* windows differ in buffer and cursor.  Every operation is also called in *)
(* the states where it is rejected.                                        *)
(***************************************************************************)
WindowBufNames == {"a"}

\* one valid axis and one unknown axis
WindowAxisInputs == {"right", "diagonal"}

NextWindows ==
    \/ SplitSelectedWindow(WindowAxisInputs, MaxWindowId)
    \/ OtherWindow
    \/ DeleteWindow
    \/ DeleteOtherWindows
    \/ SwitchBuffer(WindowBufNames)
    \/ KillBuffer(WindowBufNames)
    \/ Insert

SpecWindows == Init /\ [][NextWindows]_vars

(***************************************************************************)
(* Typing and window keys: text arrives through handle_text_input and the  *)
(* C-x window commands through dispatch_key_chord.  The text typed is the  *)
(* text "ab" or a beginning of it.                                         *)
(***************************************************************************)
TypedTexts == { << >>, <<"a">>, <<"b">> }

TypedScript == <<"a", "b">>

\* the C-x prefix, its sub-keys for split and delete, and a default key that
\* moves the cursor
TypingChords == { <<"C","-","x">>, <<"2">>, <<"0">>, <<"C","-","b">> }

HandleTextInput(texts, script) ==
    \E text \in texts :
        \E u \in {handle_text_input(Controller, text)} :
            /\ IsPrefixOrEqual(current_text(u.state), script)
            /\ state' = u.state
            /\ pending_keys' = u.pending_keys
            /\ status' = u.status
            /\ ui_action' = u.ui_action
            /\ minibuffer_handler' = u.minibuffer_handler
            /\ last' = Call("handle_text_input", text, u.raised, NoPre)
            /\ UNCHANGED <<commands, mode_history, hooks, command_infos>>

NextTyping ==
    \/ HandleTextInput(TypedTexts, TypedScript)
    \/ DispatchKeyChord(TypingChords, MaxDispatchWindowId)

SpecTyping == Init /\ [][NextTyping]_vars

(***************************************************************************)
(* Hooks: hooks of the three kinds are registered for the two command      *)
(* events, and commands are run: one that returns a text, one that returns *)
(* None, one that raises and a name that is not registered.                *)
(***************************************************************************)
HookEvents == {"before-command", "after-command"}

NotifiedRunInputs ==
    { <<"show-buffer", << >>>>, <<"insert", << <<"x">> >>>>, <<"delete-window", << >>>>,
      <<"no-such-command", << >>>> }

On(events, fns, max_hooks) ==
    \E event \in events, fn \in fns :
        /\ Len(DictGet(hooks, event, << >>)) < max_hooks
        /\ hooks' = on(hooks, event, fn)
        /\ last' = Call("on", event, None, NoPre)
        /\ UNCHANGED <<state, commands, pending_keys, status, ui_action, minibuffer_handler,
                       mode_history, command_infos>>

RunNotifying(inputs, max_text) ==
    \E input \in inputs :
        \E out \in {run_notifying(state, commands, hooks, input[1], input[2])} :
            /\ input[1] = "insert" => TotalText(state) < max_text
            /\ state' = out.r.st
            /\ last' = Call("run", input[1], out.r.exc,
                            [args |-> input[2], calls |-> out.calls, msg |-> out.r.msg,
                             has_value |-> out.r.has_value, value |-> out.r.value])
            /\ UNCHANGED_UI

NextHooks ==
    \/ On(HookEvents, HookKinds, MaxHooks)
    \/ RunNotifying(NotifiedRunInputs, MaxTotalText)

SpecHooks == Init /\ [][NextHooks]_vars

(***************************************************************************)
(* The codec on chord strings: every string made of up to two modifier     *)
(* spellings, or of three short ones, in any order and with repetition,    *)
(* and a base key in either case; alone and in two-chord sequences.        *)
(***************************************************************************)
\* a spelling of a modifier and the modifier it names
Spelling(text, modifier) == [text |-> text, modifier |-> modifier]

ModifierSpellings ==
    { Spelling(<<"C">>, "C"), Spelling(<<"c">>, "C"), Spelling(<<"C","t","r","l">>, "C"),
      Spelling(<<"C","O","N","T","R","O","L">>, "C"),
      Spelling(<<"M">>, "M"), Spelling(<<"M","e","t","a">>, "M"), Spelling(<<"a","l","t">>, "M"),
      Spelling(<<"S">>, "S"), Spelling(<<"s","h","i","f","t">>, "S") }

ShortSpellings == { Spelling(<<"c">>, "C"), Spelling(<<"M">>, "M"), Spelling(<<"S","h","i","f","t">>, "S") }

BaseKeys == { <<"x">>, <<"X">>, <<"d","e","l">>, <<"D","E","L">> }

\* a chord as it is written: the modifier spellings in order, and the base key
WrittenChords ==
    { <<mods, base>> :
        mods \in [1..0 -> ModifierSpellings] \cup [1..1 -> ModifierSpellings]
                 \cup [1..2 -> ModifierSpellings] \cup [1..3 -> ShortSpellings],
        base \in {<<"x">>, <<"X">>} }
    \cup { << << >>, base >> : base \in BaseKeys }

\* the chords written in the two-chord sequences
PairedChords ==
    { << <<Spelling(<<"C">>, "C")>>, <<"x">> >>, << <<Spelling(<<"c","t","r","l">>, "C")>>, <<"X">> >>,
      << << >>, <<"f">> >>, << << >>, <<"F">> >> }

WrittenSequences ==
    { <<chord>> : chord \in WrittenChords }
    \cup { <<first, second>> : first \in PairedChords, second \in PairedChords }

\* the text of a written chord, and of a written sequence
ChordText(chord) ==
    str_join([i \in 1..Len(chord[1]) |-> chord[1][i].text] \o <<chord[2]>>, <<"-">>)

SequenceText(written) ==
    str_join([i \in 1..Len(written) |-> ChordText(written[i])], <<" ">>)

ParseKeySequence(inputs) ==
    \E written \in inputs :
        \E r \in {parse_key_sequence(SequenceText(written))} :
            /\ last' = Call("parse_key_sequence", SequenceText(written),
                            IF r.ok THEN None ELSE "ValueError",
                            [written |-> written, value |-> r.value, msg |-> r.msg])
            /\ UNCHANGED <<state, mode_history>>
            /\ UNCHANGED_CONTROLLER

FormatKeySequence ==
    /\ last.op = "parse_key_sequence"
    /\ last.exc = None
    /\ last' = Call("format_key_sequence", last.pre.value, None,
                    [value |-> format_key_sequence(last.pre.value)])
    /\ UNCHANGED <<state, mode_history>>
    /\ UNCHANGED_CONTROLLER

NextCodec ==
    \/ ParseKeySequence(WrittenSequences)
    \/ FormatKeySequence

SpecCodec == Init /\ [][NextCodec]_vars

(***************************************************************************)
(* The reverse query: one command bound to several sequences, in the       *)
(* global table, in the table of the selected buffer and in the tables of  *)
(* two modes, and a sequence bound again to another command.               *)
(***************************************************************************)
WhereIsBindInputs ==
    { <<<<"C","-","z">>, "forward-char", "global", None, None>>,
      <<<<"C","-","z">>, "backward-char", "global", None, None>>,
      <<<<"C","-","c"," ","f">>, "forward-char", "global", None, None>>,
      <<<<"C","-","t">>, "forward-char", "buffer", None, None>>,
      <<<<"C","-","b">>, "forward-char", "mode", None, "m1">>,
      <<<<"C","-","y">>, "forward-char", "mode", None, "m2">> }

WhereIsNames == {"forward-char", "backward-char", "no-such-command"}

\* where_is(command_name, buffer=buffer); the call is recorded with the buffer
\* it asked about and the list it returned
WhereIs(names, buffers) ==
    \E name \in names, buffer \in buffers :
        \E r \in {where_is(state, commands, name, buffer)} :
            /\ state' = r.st
            /\ last' = Call("where_is", name, r.exc,
                            [buffer |-> target_buffer(state, buffer), value |-> r.value,
                             msg |-> r.msg])
            /\ UNCHANGED_UI

NextWhereIs ==
    \/ BindScopedKey(WhereIsBindInputs)
    \/ EnableMode(ModeNames, ModeBuffers)
    \/ DisableMode(ModeNames, ModeBuffers)
    \/ WhereIs(WhereIsNames, QueryBuffers)

SpecWhereIs == Init /\ [][NextWhereIs]_vars

(***************************************************************************)
(* Text under several windows: the text of the selected buffer is set,     *)
(* typed into and deleted from while two windows show it at cursors of     *)
(* their own.                                                              *)
(***************************************************************************)
MaxTextLen == 2

TextInputs == { << >>, <<"a","b">> }

InsertInputs == { <<"x">> }

\* offsets inside the texts and one beyond every text
CursorInputs == {0, 1, 9}

DeleteCounts == {0, 1, 2}

\* the text of the selected buffer and the cursor of every window
CursorView(s) ==
    [text |-> current_text(s), selected |-> s.selected_window_id,
     cursors |-> [w \in Range(window_list(s)) |-> window_cursor(s, w)]]

SetCurrentText(texts) ==
    \E text \in texts :
        /\ state' = set_current_text(state, text)
        /\ last' = Call("set_current_text", text, None, CursorView(state))
        /\ UNCHANGED_UI

SetCurrentCursor(cursors) ==
    \E cursor \in cursors :
        /\ state' = set_current_cursor(state, cursor)
        /\ last' = Call("set_current_cursor", cursor, None, NoPre)
        /\ UNCHANGED_UI

InsertText(texts, max_len) ==
    \E text \in texts :
        /\ Len(current_text(state)) + Len(text) <= max_len
        /\ state' = insert(state, <<text>>).st
        /\ last' = Call("insert", text, None, CursorView(state))
        /\ UNCHANGED_UI

DeleteBackwardChar(counts) ==
    \E count \in counts :
        /\ state' = delete_backward_char(state, <<count>>).st
        /\ last' = Call("delete_backward_char", count, None, CursorView(state))
        /\ UNCHANGED_UI

NextText ==
    \/ SplitSelectedWindow({"below"}, MaxBufferWindowId)
    \/ OtherWindow
    \/ SetCurrentText(TextInputs)
    \/ SetCurrentCursor(CursorInputs)
    \/ InsertText(InsertInputs, MaxTextLen)
    \/ DeleteBackwardChar(DeleteCounts)

SpecText == Init /\ [][NextText]_vars

(***************************************************************************)
(* A buffer killed and made again: the buffer of the selected window is    *)
(* typed into, given a mode and bindings of its own, shown in a second     *)
(* window, killed, and switched to again.                                  *)
(***************************************************************************)
KillBufNames == {SCRATCH, "a"}

\* a default key bound again for the selected buffer, and a sequence bound
\* for a mode
KillBindInputs ==
    { <<<<"C","-","f">>, "backward-char", "buffer", None, None>>,
      <<<<"C","-","y">>, "backward-char", "mode", None, "m1">> }

KillSequences == { <<"C","-","f">>, <<"C","-","y">> }

NextKill ==
    \/ SplitSelectedWindow({"below"}, MaxBufferWindowId)
    \/ SwitchBuffer(KillBufNames)
    \/ KillBuffer(KillBufNames)
    \/ Insert
    \/ BindScopedKey(KillBindInputs)
    \/ EnableMode({"m1"}, ModeBuffers)

SpecKill == Init /\ [][NextKill]_vars

(***************************************************************************)
(* The command registry: a builtin name and a new name are registered      *)
(* with functions given at run time, before and after keys are bound to    *)
(* them, and are run by name and through their keys.                       *)
(***************************************************************************)
RegisteredNames == {"show-buffer", "plug"}

\* two functions, one of them without a docstring
RuntimeFns == { [id |-> "f1", doc |-> "first"], [id |-> "f2", doc |-> None] }

\* no kind given, a known kind and an unknown kind
SourceKindInputs == {None, "plugin", "handmade"}

RegistryBindInputs ==
    { <<<<"C","-","t">>, "show-buffer", "global", None, None>>,
      <<<<"C","-","t">>, "plug", "buffer", None, None>>,
      <<<<"C","-","y">>, "plug", "global", None, None>> }

RegistrySequences == { <<"C","-","t">>, <<"C","-","y">>, <<"C","-","f">> }

RunNames == {"show-buffer", "plug", "forward-char"}

\* the registry: the names and the entries of those registered again
RegistryView == [commands |-> commands, command_infos |-> command_infos]

Command(names, fns, kinds) ==
    \E name \in names, fn \in fns, source_kind \in kinds :
        \E r \in {command(commands, command_infos, name, fn, source_kind)} :
            /\ commands' = r.commands
            /\ command_infos' = r.command_infos
            /\ last' = Call("command", name, None,
                            [fn |-> fn, source_kind |-> source_kind, registry |-> RegistryView])
            /\ UNCHANGED <<state, hooks, pending_keys, status, ui_action, minibuffer_handler,
                           mode_history>>

RunRegistered(names) ==
    \E name \in names :
        \E r \in {run_registered(state, commands, command_infos, name, << >>)} :
            /\ state' = r.st
            /\ last' = Call("run", name, r.exc,
                            [has_value |-> r.has_value, value |-> r.value, ran |-> r.ran])
            /\ UNCHANGED_UI

\* command_execute(sequence)
CommandExecute(sequences) ==
    \E sequence \in sequences :
        \E r \in {run_resolved_registered(
                      resolve_key(state, parse_key_sequence(sequence), None),
                      commands, command_infos, << >>)} :
            /\ state' = r.st
            /\ last' = Call("command_execute", sequence, r.exc,
                            [has_value |-> r.has_value, value |-> r.value, ran |-> r.ran])
            /\ UNCHANGED_UI

NextRegistry ==
    \/ Command(RegisteredNames, RuntimeFns, SourceKindInputs)
    \/ BindScopedKey(RegistryBindInputs)
    \/ RunRegistered(RunNames)
    \/ CommandExecute(RegistrySequences)

SpecRegistry == Init /\ [][NextRegistry]_vars

(***************************************************************************)
(* Windows under every operation: windows are split and deleted while the  *)
(* buffer, text, cursor, keymap and mode operations run in them.           *)
(***************************************************************************)
FrameBindInputs == { <<<<"C","-","t">>, "show-buffer", "global", None, None>> }

NextFrame ==
    \/ SplitSelectedWindow({"right"}, MaxBufferWindowId)
    \/ DeleteWindow
    \/ DeleteOtherWindows
    \/ SwitchBuffer({"a"})
    \/ PopToBuffer({"a"}, BOOLEAN)
    \/ KillBuffer({"a"})
    \/ SetCurrentText({ <<"a","b">> })
    \/ SetCurrentCursor({1})
    \/ BindScopedKey(FrameBindInputs)
    \/ EnableMode({"m1"}, ModeBuffers)
    \/ DisableMode({"m1"}, ModeBuffers)

SpecFrame == Init /\ [][NextFrame]_vars

\* snapshot(), recorded with the offsets stored before it
Snapshot ==
    \E r \in {snapshot(state, status)} :
        /\ state' = r.st
        /\ last' = Call("snapshot", "", None,
                        [value |-> r.value, window_points |-> state.window_points])
        /\ UNCHANGED_UI

(***************************************************************************)
(* The layout tree alone: windows are split along both axes, selected in   *)
(* turn and deleted, and a second buffer is shown.                         *)
(***************************************************************************)
NextTree ==
    \/ SplitSelectedWindow(Axes, MaxWindowId)
    \/ OtherWindow
    \/ DeleteWindow
    \/ DeleteOtherWindows
    \/ SwitchBuffer({"a"})
    \/ Snapshot

SpecTree == Init /\ [][NextTree]_vars

(***************************************************************************)
(* The buffer commands run by name in a workspace of several windows:      *)
(* buffers are switched to, listed and killed, the help buffer is written, *)
(* and windows are split.                                                  *)
(***************************************************************************)
HistoryCommandInputs ==
    { <<"switch-to-buffer", <<<<"a">>>> >>,
      <<"kill-buffer", << >> >>,
      <<"list-buffers", << >> >>,
      <<"where-is", <<<<"i","n","s","e","r","t">>>> >>,
      <<"split-window-below", << >> >> }

\* commands run while at most max_id windows have been made
RunCommandInWindows(inputs, max_id) ==
    \E input \in inputs :
        \E r \in {run(state, commands, input[1], input[2])} :
            /\ input[1] = "split-window-below" => state.next_window_id <= max_id
            /\ state' = r.st
            /\ last' = Call("run", input[1], r.exc, [args |-> input[2], value |-> r.value])
            /\ UNCHANGED_UI

NextHistory == RunCommandInWindows(HistoryCommandInputs, MaxBufferWindowId)

SpecHistory == Init /\ [][NextHistory]_vars

(***************************************************************************)
(* Prompts: the prompt bindings of C-x and C-h, M-x and the cancel key are *)
(* dispatched and lines are submitted to the minibuffer.                   *)
(***************************************************************************)
PromptChords ==
    { <<"C","-","x">>, <<"b">>, <<"k">>, <<"C","-","h"," ","w">>, <<"M","-","x">>, <<"C","-","g">> }

\* the empty line, a line that is a verb of the grammar and a line with an
\* argument
LineInputs == { << >>, <<"b","u","f">>, <<"r","u","n"," ","s","h","o","w","-","b","u","f","f","e","r">> }

HandleMinibufferSubmit(lines) ==
    \E line \in lines :
        \E u \in {handle_minibuffer_submit(Controller, line)} :
            /\ state' = u.state
            /\ pending_keys' = u.pending_keys
            /\ status' = u.status
            /\ ui_action' = u.ui_action
            /\ minibuffer_handler' = u.minibuffer_handler
            /\ last' = Call("handle_minibuffer_submit", line, u.raised,
                            [minibuffer_handler |-> minibuffer_handler,
                             ui_action |-> ui_action])
            /\ UNCHANGED <<commands, mode_history, hooks, command_infos>>

NextPrompt ==
    \/ DispatchKeyChord(PromptChords, MaxDispatchWindowId)
    \/ HandleMinibufferSubmit(LineInputs)

SpecPrompt == Init /\ [][NextPrompt]_vars

(***************************************************************************)
(* Reading cursors: the help command rewrites the text of *Help* under the *)
(* offsets stored for it, in one window and in two, and the cursors are    *)
(* read by window_cursor and by snapshot.                                  *)
(***************************************************************************)
CursorCommandInputs ==
    { <<"forward-char", <<500>> >>,
      <<"where-is", <<<<"i","n","s","e","r","t">>>> >>,
      <<"where-is", <<<<"d","e","l","e","t","e","-","o","t","h","e","r","-","w","i","n","d","o","w","s">>>> >>,
      <<"split-window-below", << >> >>,
      <<"other-window", << >> >> }

\* window_cursor(window_id), recorded with the offsets stored before it
WindowCursor ==
    \E window_id \in DOMAIN state.windows :
        /\ state' = window_cursor_state(state, window_id)
        /\ last' = Call("window_cursor", window_id, None,
                        [value |-> window_cursor(state, window_id),
                         window_points |-> state.window_points])
        /\ UNCHANGED_UI

NextCursor ==
    \/ RunCommandInWindows(CursorCommandInputs, MaxBufferWindowId)
    \/ WindowCursor
    \/ Snapshot

SpecCursor == Init /\ [][NextCursor]_vars

(***************************************************************************)
(* Split, other_window, delete_window in a row: each call records how many *)
(* calls of that chain it completes and the state the chain started from.  *)
(***************************************************************************)
NoChain == [origin |-> << >>, steps |-> 0]

Chained(op, steps) == last.op = op /\ last.exc = None /\ last.pre.steps = steps

SplitChained(axes, max_id) ==
    \E axis \in axes :
        LET r == split_selected_window(state, axis)
        IN /\ state.next_window_id <= max_id
           /\ state' = r.st
           /\ last' = Call("split_selected_window", axis, r.exc,
                           [origin |-> state, steps |-> 1])
           /\ UNCHANGED_UI

OtherWindowChained ==
    /\ state' = other_window(state)
    /\ last' = Call("other_window", "", None,
                    IF Chained("split_selected_window", 1)
                    THEN [origin |-> last.pre.origin, steps |-> 2] ELSE NoChain)
    /\ UNCHANGED_UI

DeleteWindowChained ==
    LET r == delete_window(state)
    IN /\ state' = r.st
       /\ last' = Call("delete_window", "", r.exc,
                       IF Chained("other_window", 2)
                       THEN [origin |-> last.pre.origin, steps |-> 3] ELSE NoChain)
       /\ UNCHANGED_UI

NextRoundTrip ==
    \/ SplitChained({"right"}, MaxWindowId)
    \/ OtherWindowChained
    \/ DeleteWindowChained
    \/ SwitchBuffer({"a"})
    \/ SetCurrentText({ <<"a","b">> })
    \/ SetCurrentCursor({1})

SpecRoundTrip == Init /\ [][NextRoundTrip]_vars

(***************************************************************************)
(* Popping to a buffer: one buffer is shown through pop_to_buffer, with    *)
(* and without a preference for another window, in layouts of up to        *)
(* MaxWindowId windows.                                                    *)
(***************************************************************************)
NextPop ==
    \/ SplitSelectedWindow({"right"}, MaxWindowId)
    \/ OtherWindow
    \/ DeleteWindow
    \/ PopToBuffer({"a"}, BOOLEAN)

SpecPop == Init /\ [][NextPop]_vars

(***************************************************************************)
\* The references met by a walk from ref, in preorder; a walk that is still
\* going after `fuel` levels (a cycle) leaves the marker <<"cycle", 0>>, and a
\* split id that names no stored split the marker <<"dangling", id>>.
RECURSIVE RefsFrom(_, _, _)
RefsFrom(s, ref, fuel) ==
    IF fuel = 0 THEN << <<"cycle", 0>> >>
    ELSE IF ref[1] = "window" THEN <<ref>>
    ELSE IF ref[2] \notin DOMAIN s.splits THEN << <<"dangling", ref[2]>> >>
    ELSE <<ref>> \o RefsFrom(s, s.splits[ref[2]].first, fuel - 1)
               \o RefsFrom(s, s.splits[ref[2]].second, fuel - 1)

ReachableRefs(s) == RefsFrom(s, s.layout_root, Cardinality(DOMAIN s.splits) + 2)

IsLayoutRef(ref) == Len(ref) = 2 /\ ref[1] \in {"window", "split"}

\* C1: in every state reached by split, other_window, delete_window,
\* delete_other_windows, switch_buffer, pop_to_buffer and kill_buffer, the layout
\* rooted at layout_root is a finite binary tree: every reachable window id is in
\* the window store and occurs once, every reachable split id names a stored
\* split with two children, and no node is reached along two paths.
C1_LayoutIsBinaryTree ==
    LET refs == ReachableRefs(state)
    IN /\ \A i \in 1..Len(refs) :
            /\ refs[i][1] \in {"window", "split"}
            /\ refs[i][1] = "window" => refs[i][2] \in DOMAIN state.windows
            /\ refs[i][1] = "split" =>
                  /\ refs[i][2] \in DOMAIN state.splits
                  /\ IsLayoutRef(state.splits[refs[i][2]].first)
                  /\ IsLayoutRef(state.splits[refs[i][2]].second)
       /\ \A i, j \in 1..Len(refs) : refs[i] = refs[j] => i = j

\* a nested layout of three windows, reached through a split and a deletion
C1_Witness ==
    /\ last.op = "delete_window" /\ last.exc = None
    /\ Len(window_list(state)) = 2
    /\ state.next_window_id = 4

(***************************************************************************)
(* The buffer lifecycle (C2, C3, C4).                                      *)
(***************************************************************************)
KillReturned == last.op = "kill_buffer" /\ last.exc = None

\* the windows that showed the killed buffer before the call
ShowedKilled == {w \in DOMAIN last.pre.windows : last.pre.windows[w].buffer = last.arg}

\* C2: the buffer name held by every window in the window store is a key of
\* the buffer store, in particular right after a kill_buffer call.
C2_LeavesShowLiveBuffers ==
    \A w \in DOMAIN state.windows : state.windows[w].buffer \in DOMAIN state.buffers

\* kill_buffer has just replaced a buffer shown in two windows
C2_Witness ==
    /\ KillReturned
    /\ Cardinality(ShowedKilled) = 2
    /\ C2_LeavesShowLiveBuffers

\* what C3 says of the buffer killed by the last call
KilledIsGone ==
    /\ \A w \in ShowedKilled : state.windows[w].buffer # last.arg
    /\ last.arg \notin DOMAIN state.buffers
    /\ last.arg \notin Range(state.buffer_history)

\* C3 as stated: after kill_buffer(B), for every buffer B of the store, no
\* window that showed B shows B, B is no key of the store and B is not in
\* buffer_history.
C3_Original == KillReturned => KilledIsGone

\* *scratch* killed while it is the only buffer
KilledLoneScratch == last.arg = SCRATCH /\ last.pre.buffer_names = {SCRATCH}

\* C3, amended: after kill_buffer(B), unless B is *scratch* and the only
\* buffer, no window that showed B shows B, B is no key of the store and B is
\* not in buffer_history; *scratch* killed as the only buffer is created
\* again, empty, and stays on display and in the history.
C3_KilledBufferIsGone ==
    KillReturned =>
        IF KilledLoneScratch
        THEN /\ state.buffers[SCRATCH] = << >>
             /\ state.buffer_history = <<SCRATCH>>
             /\ \A w \in ShowedKilled : state.windows[w].buffer = SCRATCH
        ELSE KilledIsGone

\* a buffer shown in two windows was killed while another buffer existed
C3_Witness ==
    /\ KillReturned
    /\ ~KilledLoneScratch
    /\ Cardinality(ShowedKilled) = 2
    /\ KilledIsGone

\* the first name of the history before the call, other than the killed
\* buffer, that was in the store; None when there is none
FirstOtherInHistory ==
    LET others == SelectSeq(last.pre.buffer_history,
                            LAMBDA n : n # last.arg /\ n \in last.pre.buffer_names)
    IN IF Len(others) > 0 THEN others[1] ELSE None

\* C4: kill_buffer(B) gives every window that showed B one and the same
\* replacement, the first name of buffer_history other than B that is in the
\* store, or *scratch*, empty, when no other buffer exists; the replacement is
\* then the first entry of buffer_history, and the other windows keep their
\* buffer.
C4_ReplacementIsMostRecent ==
    KillReturned =>
        LET replacement == IF last.pre.buffer_names \ {last.arg} # {}
                           THEN FirstOtherInHistory ELSE SCRATCH
        IN /\ replacement \in DOMAIN state.buffers
           /\ last.pre.buffer_names \ {last.arg} = {} => state.buffers[SCRATCH] = << >>
           /\ \A w \in DOMAIN last.pre.windows :
                 state.windows[w].buffer =
                     IF w \in ShowedKilled THEN replacement ELSE last.pre.windows[w].buffer
           /\ state.buffer_history[1] = replacement

\* the killed buffer was shown in one window and not in another, and two
\* other buffers were candidates
C4_Witness ==
    /\ KillReturned
    /\ Cardinality(ShowedKilled) = 1
    /\ Cardinality(DOMAIN last.pre.windows) = 2
    /\ Cardinality(last.pre.buffer_names) = 3
    /\ state.buffer_history[1] = FirstOtherInHistory

(***************************************************************************)
(* Key dispatch (C5 - C10).  The statements read the trace of the last key *)
(* step: the state, the pending sequence and the prompt handler before it, *)
(* against the variables after it.                                         *)
(***************************************************************************)
\* the last call was dispatch_key_chord and it took a key step
KeyStep == last.op = "dispatch_key_chord" /\ last.pre.key # << >>

\* the pending sequence plus the incoming chord
Candidate == Append(last.pre.pending_keys, last.pre.key)

IsCancelKey == last.pre.key = <<"C","-","g">>

\* a two-chord candidate whose first chord is one of the UI prefixes
UnderUiPrefix == Len(Candidate) = 2 /\ Candidate[1] \in {<<"C","-","x">>, <<"C","-","h">>}

\* what the keymap resolver answers for the candidate and the buffer that was
\* selected
Resolution == resolve_key(last.pre.state, Parsed(Candidate), None)
IsResolved == Resolution.exc = None

IsUiAction == Candidate \in DOMAIN UI_ACTION_BINDINGS

\* the sequences of the UI tables
UiSequences ==
    DOMAIN UI_ACTION_BINDINGS
    \cup {<< <<"C","-","h">>, subkey >> : subkey \in DOMAIN HELP_PROMPT_BINDINGS}
    \cup {<< <<"C","-","x">>, subkey >> : subkey \in DOMAIN CTRL_X_COMMAND_BINDINGS}
    \cup {<< <<"C","-","x">>, subkey >> : subkey \in DOMAIN CTRL_X_PROMPT_BINDINGS}

\* the sequences bound in the keymaps active for the selected buffer of s
ActiveSequences(s) ==
    LET active == _active_keymaps(s, s.windows[s.selected_window_id].buffer)
    IN UNION {DOMAIN active[i].keymap : i \in 1..Len(active)}

BoundSequences(s) == UiSequences \cup ActiveSequences(s)

HasContinuation(sequence, s) ==
    \E bound \in BoundSequences(s) :
        Len(bound) > Len(sequence) /\ SubSeq(bound, 1, Len(sequence)) = sequence

Idle == pending_keys = << >>

PerformsCommand == last.pre.ran = <<Resolution.value>>

PerformsAction ==
    /\ ui_action = UIAction(UI_ACTION_BINDINGS[Candidate], None)
    /\ last.pre.ran = << >>

\* C5 as stated: every candidate, of any length and any first chord, that the
\* resolver maps to a command or that matches a UI action binding is performed
\* and the machine is idle afterwards.
C5_Original ==
    (KeyStep /\ ~IsCancelKey /\ (IsResolved \/ IsUiAction))
        => /\ Idle
           /\ \/ IsUiAction /\ PerformsAction
              \/ IsResolved /\ PerformsCommand

\* C5 (amended): a chord other than the cancel key whose candidate matches a UI
\* action binding, or is mapped to a command by the resolver and is not a
\* two-chord candidate beginning with C-x or C-h, performs that action or
\* command and leaves the machine idle.
C5_BoundCandidateIsPerformed ==
    (KeyStep /\ ~IsCancelKey)
        => /\ IsUiAction => (Idle /\ PerformsAction)
           /\ (IsResolved /\ ~IsUiAction /\ ~UnderUiPrefix) => (Idle /\ PerformsCommand)

\* a two-chord sequence bound in the keymap of the selected buffer was typed
\* and its command ran
C5_Witness ==
    /\ KeyStep
    /\ Candidate = << <<"C","-","c">>, <<"a">> >>
    /\ IsResolved
    /\ last.pre.ran = <<"delete-window">>
    /\ Idle

NotExactMatch == ~IsResolved /\ Candidate \notin UiSequences

AwaitsMoreInput ==
    /\ pending_keys = Candidate
    /\ status = "pending " \o Str(format_key_sequence(Candidate))
    /\ last.pre.ran = << >>

\* C6 as stated: a candidate that is not an exact match and is a strict prefix
\* of a sequence bound in the keymaps or the UI tables becomes the pending
\* sequence, the status is 'pending <candidate>' and no command is invoked.
C6_Original ==
    (KeyStep /\ ~IsCancelKey /\ NotExactMatch /\ HasContinuation(Candidate, last.pre.state))
        => AwaitsMoreInput

\* C6 (amended): the same for every candidate that is not a two-chord
\* candidate beginning with C-x or C-h, the keymaps being those active for the
\* selected buffer; a two-chord candidate beginning with C-x or C-h never
\* becomes pending.
C6_PrefixCandidateIsPending ==
    (KeyStep /\ ~IsCancelKey)
        => /\ (~UnderUiPrefix /\ NotExactMatch /\ HasContinuation(Candidate, last.pre.state))
                => AwaitsMoreInput
           /\ UnderUiPrefix => Idle

\* the prefix of a sequence bound in the keymap of the selected buffer was
\* typed and is pending
C6_Witness ==
    /\ KeyStep
    /\ Candidate = << <<"C","-","c">> >>
    /\ pending_keys = Candidate
    /\ status = "pending C-c"

\* C7: a chord whose candidate is neither bound (keymaps active for the
\* selected buffer, UI tables) nor a strict prefix of a bound sequence reports
\* 'unbound key sequence: <candidate>', leaves the machine idle and leaves the
\* workspace as it was.
C7_UnboundLeavesWorkspace ==
    (KeyStep /\ ~IsCancelKey /\ NotExactMatch /\ ~HasContinuation(Candidate, last.pre.state))
        => /\ status = "unbound key sequence: " \o Str(format_key_sequence(Candidate))
           /\ Idle
           /\ last.pre.ran = << >>
           /\ state = last.pre.state

\* an unbound key followed a pending user prefix, in a workspace with a second
\* buffer and a buffer keymap
C7_Witness ==
    /\ KeyStep
    /\ Candidate = << <<"C","-","c">>, <<"f">> >>
    /\ status = "unbound key sequence: C-c f"
    /\ "a" \in DOMAIN state.buffers
    /\ DOMAIN state.buffer_keymaps # {}

\* C8: after every call of dispatch_key_chord the pending sequence is empty,
\* or it is a strict prefix of a sequence bound in the UI tables or in the
\* keymaps active for the selected buffer and is not itself bound.
C8_PendingIsProperPrefix ==
    last.op = "dispatch_key_chord"
        => \/ pending_keys = << >>
           \/ /\ HasContinuation(pending_keys, state)
              /\ pending_keys \notin BoundSequences(state)

\* a sequence is pending whose only continuation is in the keymap of the
\* selected buffer
C8_Witness ==
    /\ last.op = "dispatch_key_chord"
    /\ pending_keys # << >>
    /\ \A bound \in UiSequences \cup DOMAIN state.global_keymap :
           ~IsStrictPrefix(pending_keys, bound)

\* C9: a key step that invokes a command leaves the machine idle, whether the
\* command returned or raised; what it raised is the status message (after
\* 'command error: ' where execute_key caught it) and no exception leaves
\* dispatch_key_chord.
C9_CommandLeavesIdle ==
    (KeyStep /\ last.pre.ran # << >>)
        => /\ Idle
           /\ last.exc = None
           /\ last.pre.exc # None
                => status \in {last.pre.msg, "command error: " \o last.pre.msg}

\* a user binding ran delete-window on the only window: the command raised
C9_Witness ==
    /\ KeyStep
    /\ Candidate = << <<"C","-","c">>, <<"a">> >>
    /\ last.pre.ran = <<"delete-window">>
    /\ last.pre.exc = "ValueError"
    /\ status = "command error: cannot delete the only window"
    /\ Idle

\* C10: C-g, from idle or from a pending sequence, empties the pending
\* sequence, requests the cancel action, discards the prompt handler, invokes
\* no command and leaves the workspace as it was.
C10_CancelResets ==
    (KeyStep /\ IsCancelKey)
        => /\ pending_keys = << >>
           /\ ui_action = UIAction("cancel-minibuffer", None)
           /\ minibuffer_handler = NoHandler
           /\ last.pre.ran = << >>
           /\ state = last.pre.state

\* C-g arrived while a sequence was pending and a prompt handler was installed
C10_Witness ==
    /\ KeyStep
    /\ IsCancelKey
    /\ last.pre.pending_keys # << >>
    /\ last.pre.minibuffer_handler # NoHandler
    /\ minibuffer_handler = NoHandler

(***************************************************************************)
(* The keymap resolver (C11 - C14).  The statements read the last query:   *)
(* the buffer it was made for and the value it returned, against the       *)
(* binding tables, which no query changes.                                 *)
(***************************************************************************)
\* the parsed form of the sequence the last call was made with
AskedKey == parse_key_sequence(last.arg).value

HoldsKey(keymaps, name, key) == name \in DOMAIN keymaps /\ key \in DOMAIN keymaps[name]

Described == last.op = "describe_key"

\* describe_key returned the binding of the table of mode `mode`
ReturnedModeBinding(mode) ==
    /\ last.exc = None
    /\ last.pre.value.scope = "mode"
    /\ last.pre.value.mode = mode
    /\ last.pre.value.command_name = state.mode_keymaps[mode][AskedKey]

ReturnedBufferBinding(buffer) ==
    /\ last.exc = None
    /\ last.pre.value.scope = "buffer"
    /\ last.pre.value.buffer = buffer
    /\ last.pre.value.command_name = state.buffer_keymaps[buffer][AskedKey]

ReturnedGlobalBinding ==
    /\ last.exc = None
    /\ last.pre.value.scope = "global"
    /\ last.pre.value.command_name = state.global_keymap[AskedKey]

\* the mode calls made for the buffer of the last query left exactly `modes`
\* enabled, each enabled once, in that order
EnabledInOrder(modes) == ModeHistory(last.pre.buffer) = [latest |-> modes, since |-> modes]

\* C11: with a sequence bound in the global table, in the table of buffer b
\* and in the tables of modes m1 and m2, resolution for b returns the m2
\* binding when m1 and then m2 were enabled on b, the m1 binding when only m1 is
\* enabled, the buffer binding when no mode is enabled, and the global binding
\* when no mode is enabled and b has no binding.
C11_LayeredResolution ==
    ( /\ Described
      /\ AskedKey \in DOMAIN state.global_keymap
      /\ HoldsKey(state.mode_keymaps, "m1", AskedKey)
      /\ HoldsKey(state.mode_keymaps, "m2", AskedKey) ) =>
        LET bound_in_b == HoldsKey(state.buffer_keymaps, last.pre.buffer, AskedKey)
        IN /\ (bound_in_b /\ EnabledInOrder(<<"m1", "m2">>)) => ReturnedModeBinding("m2")
           /\ (bound_in_b /\ EnabledInOrder(<<"m1">>)) => ReturnedModeBinding("m1")
           /\ (bound_in_b /\ EnabledInOrder(<< >>)) => ReturnedBufferBinding(last.pre.buffer)
           /\ (~bound_in_b /\ EnabledInOrder(<< >>)) => ReturnedGlobalBinding

\* the sequence is bound in all four tables, m1 and then m2 were enabled, and
\* the m2 binding came back
C11_Witness ==
    /\ Described
    /\ AskedKey \in DOMAIN state.global_keymap
    /\ HoldsKey(state.buffer_keymaps, last.pre.buffer, AskedKey)
    /\ HoldsKey(state.mode_keymaps, "m1", AskedKey)
    /\ HoldsKey(state.mode_keymaps, "m2", AskedKey)
    /\ EnabledInOrder(<<"m1", "m2">>)
    /\ ReturnedModeBinding("m2")

\* the last of the modes of `order` whose table binds the key; None without one
LastBinding(order, key) ==
    LET binding == SelectSeq(order, LAMBDA m : HoldsKey(state.mode_keymaps, m, key))
    IN IF binding = << >> THEN None ELSE binding[Len(binding)]

\* C12 as stated: among the enabled modes that bind the sequence, the mode
\* named by the latest enable_mode call wins, also when that call named a mode
\* that was already enabled.
C12_Original ==
    (Described /\ LastBinding(ModeHistory(last.pre.buffer).latest, AskedKey) # None) =>
        ReturnedModeBinding(LastBinding(ModeHistory(last.pre.buffer).latest, AskedKey))

\* C12, amended: among the enabled modes that bind the sequence, the mode that
\* became enabled last wins; an enable_mode call that names a mode already
\* enabled leaves the order as it was.
C12_LastEnabledModeWins ==
    (Described /\ LastBinding(ModeHistory(last.pre.buffer).since, AskedKey) # None) =>
        ReturnedModeBinding(LastBinding(ModeHistory(last.pre.buffer).since, AskedKey))

\* m1, m2 and m1 again were enabled, both bind the sequence, and m2 won
C12_Witness ==
    /\ Described
    /\ ModeHistory(last.pre.buffer) = [latest |-> <<"m2", "m1">>, since |-> <<"m1", "m2">>]
    /\ HoldsKey(state.mode_keymaps, "m1", AskedKey)
    /\ HoldsKey(state.mode_keymaps, "m2", AskedKey)
    /\ ReturnedModeBinding("m2")

\* the command names stored in the three tables
StoredCommandNames(s) ==
    {s.global_keymap[k] : k \in DOMAIN s.global_keymap}
    \cup UNION {{s.buffer_keymaps[b][k] : k \in DOMAIN s.buffer_keymaps[b]} :
                    b \in DOMAIN s.buffer_keymaps}
    \cup UNION {{s.mode_keymaps[m][k] : k \in DOMAIN s.mode_keymaps[m]} :
                    m \in DOMAIN s.mode_keymaps}

BindCalled == last.op = "bind_key"

\* C13: bind_key with a command name that is not registered fails with
\* "unknown command" and leaves the three tables as they were; every command
\* name stored in a table is a registered command.
C13_BindingsNeverDangle ==
    /\ StoredCommandNames(state) \subseteq commands
    /\ (BindCalled /\ last.pre.command_name \notin commands) =>
           /\ last.exc = "KeyError"
           /\ last.pre.msg = "unknown command: " \o last.pre.command_name
           /\ KeymapView(state) = last.pre.keymaps

\* bind_key was refused for a mode table while user bindings are stored
C13_Witness ==
    /\ BindCalled
    /\ last.pre.command_name \notin commands
    /\ last.exc = "KeyError"
    /\ DOMAIN state.mode_keymaps # {}
    /\ DOMAIN state.buffer_keymaps # {}

AskedPrefix == last.op = "has_prefix_binding"

\* bound is longer than key and starts with it
Extends(bound, key) == Len(bound) > Len(key) /\ \A i \in 1..Len(key) : bound[i] = key[i]

SomeExtends(keymaps, key) == \E keymap \in keymaps : \E bound \in DOMAIN keymap : Extends(bound, key)

\* every table of the three scopes
AllKeymaps(s) ==
    {s.global_keymap}
    \cup {s.buffer_keymaps[b] : b \in DOMAIN s.buffer_keymaps}
    \cup {s.mode_keymaps[m] : m \in DOMAIN s.mode_keymaps}

\* the global table, the table of the buffer and the tables of its enabled modes
KeymapsActiveFor(s, buffer) ==
    {s.global_keymap}
    \cup {s.buffer_keymaps[b] : b \in {buffer} \cap DOMAIN s.buffer_keymaps}
    \cup {s.mode_keymaps[m] :
            m \in Range(DictGet(s.buffer_modes, buffer, << >>)) \cap DOMAIN s.mode_keymaps}

\* C14 as stated: has_prefix_binding(seq) is true exactly when a sequence bound
\* in the global table, in any buffer table or in any mode table is longer than
\* seq and starts with it.
C14_Original ==
    AskedPrefix =>
        /\ last.exc = None
        /\ last.pre.value = SomeExtends(AllKeymaps(state), AskedKey)

\* C14, amended: has_prefix_binding(seq) for a buffer is true exactly when a
\* sequence bound in the global table, in the table of that buffer or in the
\* table of a mode enabled on that buffer is longer than seq and starts with
\* it; a bound sequence equal to seq never counts.
C14_PrefixOfActiveBinding ==
    AskedPrefix =>
        /\ last.exc = None
        /\ last.pre.value = SomeExtends(KeymapsActiveFor(state, last.pre.buffer), AskedKey)

\* the answer was no although the sequence itself is bound for the buffer and
\* a longer one is bound in the table of a mode that is not enabled
C14_Witness ==
    /\ AskedPrefix
    /\ last.exc = None
    /\ last.pre.value = FALSE
    /\ AskedKey \in DOMAIN state.global_keymap
    /\ SomeExtends(AllKeymaps(state), AskedKey)

(***************************************************************************)
(* The cursor memory under the commands that write text (C15).             *)
(***************************************************************************)
\* C15: for every window w and every buffer b recorded in the point memory of
\* w, the stored offset is at least 0 and at most the length of the text of b,
\* also after list-buffers and the help commands have rewritten their buffer.
C15_StoredOffsetsInRange ==
    \A w \in DOMAIN state.window_points :
        \A b \in DOMAIN state.window_points[w] \cap DOMAIN state.buffers :
            /\ 0 <= state.window_points[w][b]
            /\ state.window_points[w][b] <= Len(state.buffers[b])

(***************************************************************************)
(* Window surgery (C16 - C20).  Each property relates the state before a   *)
(* call to the state after it, so it is stated of the steps: `state` is    *)
(* the workspace before the call that last' describes, state' after it.    *)
(***************************************************************************)
\* the step is a call of op that returned
Completed(op) == last'.op = op /\ last'.exc = None

\* ref, or replacement where ref is target
ReplacedRef(ref, target, replacement) == IF ref = target THEN replacement ELSE ref

\* the split nodes that have ref as a child
ParentSplits(s, ref) ==
    {k \in DOMAIN s.splits : ref \in {s.splits[k].first, s.splits[k].second}}

\* split node k is new, has the selected window and window `new` as its first
\* and second child, and stands where the selected window stood
SplitTakesPlace(k, new) ==
    LET selected_ref == WindowRef(state.selected_window_id)
    IN /\ k \notin DOMAIN state.splits
       /\ DOMAIN state'.splits = DOMAIN state.splits \cup {k}
       /\ state'.splits[k].first = selected_ref
       /\ state'.splits[k].second = WindowRef(new)
       /\ state'.layout_root = ReplacedRef(state.layout_root, selected_ref, SplitRef(k))
       /\ \A j \in DOMAIN state.splits :
             /\ state'.splits[j].axis = state.splits[j].axis
             /\ state'.splits[j].first =
                    ReplacedRef(state.splits[j].first, selected_ref, SplitRef(k))
             /\ state'.splits[j].second =
                    ReplacedRef(state.splits[j].second, selected_ref, SplitRef(k))

SplitPost(new) ==
    /\ DOMAIN state'.windows = DOMAIN state.windows \cup {new}
    /\ Len(window_list(state')) = Len(window_list(state)) + 1
    /\ new \notin DOMAIN state.windows \cup DOMAIN state.window_points
    /\ new >= state.next_window_id
    /\ state'.windows[new].buffer = selected_buffer(state)
    /\ window_cursor(state', new) = current_cursor(state)
    /\ \E k \in DOMAIN state'.splits : SplitTakesPlace(k, new)
    /\ state'.selected_window_id = state.selected_window_id
    /\ \A w \in DOMAIN state.windows :
          /\ state'.windows[w].buffer = state.windows[w].buffer
          /\ window_cursor(state', w) = window_cursor(state, w)

\* C16: a split on a valid axis returns, and leaves exactly one more window;
\* the new window has an id no window had before, shows the buffer of the
\* selected window at the selected window's cursor, and is the second child of
\* a new split node standing where the selected window stood; the selection and
\* the buffer and cursor of every window that existed are unchanged.
C16_SplitAddsOneWindow ==
    [][ (last'.op = "split_selected_window" /\ last'.arg \in {"below", "right"}) =>
            /\ last'.exc = None
            /\ \E new \in DOMAIN state'.windows \ DOMAIN state.windows : SplitPost(new)
      ]_vars

\* a split just made window 3 out of a window that shows "a" at offset 1, in a
\* layout whose other window shows *scratch* at offset 0
C16_Witness ==
    /\ last.op = "split_selected_window"
    /\ last.exc = None
    /\ window_list(state) = <<1, 2, 3>>
    /\ state.selected_window_id = 2
    /\ state.windows[3].buffer = "a"
    /\ window_cursor(state, 3) = 1
    /\ state.windows[1].buffer = SCRATCH

\* the one split node that has the selected window as a child
SelectedParent(s) ==
    CHOOSE k \in ParentSplits(s, WindowRef(s.selected_window_id)) : TRUE

\* the other child of that split node
SelectedSibling(s) ==
    LET node == s.splits[SelectedParent(s)]
    IN IF node.first = WindowRef(s.selected_window_id) THEN node.second ELSE node.first

\* C17: delete_window called with more than one window returns and removes
\* exactly the selected window: the traversal afterwards is the traversal
\* before without the selected id (one window fewer, the others in the same
\* order), the split node that was the parent of the selected window is
\* removed from the split store and no other, and the cursor memory of the
\* deleted window is removed and no other.
C17_DeleteRemovesSelected ==
    [][ (last'.op = "delete_window" /\ Len(window_list(state)) > 1) =>
            /\ last'.exc = None
            /\ window_list(state') = Without(window_list(state), state.selected_window_id)
            /\ Len(window_list(state')) = Len(window_list(state)) - 1
            /\ DOMAIN state'.windows = DOMAIN state.windows \ {state.selected_window_id}
            /\ Cardinality(ParentSplits(state, WindowRef(state.selected_window_id))) = 1
            /\ DOMAIN state'.splits = DOMAIN state.splits \ {SelectedParent(state)}
            /\ DOMAIN state'.window_points =
                   DOMAIN state.window_points \ {state.selected_window_id}
      ]_vars

\* window 2 of three was just deleted: the first child of the inner split
C17_Witness ==
    /\ last.op = "delete_window"
    /\ last.exc = None
    /\ window_list(state) = <<1, 3>>
    /\ DOMAIN state.window_points = {1, 3}
    /\ Cardinality(DOMAIN state.splits) = 1
    /\ state.windows[3].buffer = "a"

\* C18: after delete_window has returned, the selected window is the first
\* window in the traversal of the subtree that was the sibling of the deleted
\* window under their parent split, and that window is in the layout and in the
\* window store.
C18_SiblingFirstWindowSelected ==
    [][ Completed("delete_window") =>
            /\ state'.selected_window_id = Head(_walk_windows(state, SelectedSibling(state)))
            /\ state'.selected_window_id = Head(_walk_windows(state', SelectedSibling(state)))
            /\ state'.selected_window_id \in Range(window_list(state'))
            /\ state'.selected_window_id \in DOMAIN state'.windows
      ]_vars

\* window 1 was just deleted while its sibling was the split of windows 2 and
\* 3: window 2, the first of that subtree, is selected
C18_Witness ==
    /\ last.op = "delete_window"
    /\ last.exc = None
    /\ window_list(state) = <<2, 3>>
    /\ state.selected_window_id = 2
    /\ state.layout_root[1] = "split"
    /\ state.next_window_id = 4

\* C19: delete_window called with a single window, kill_buffer called with a
\* name that is not in the buffer store, and a split called with an axis other
\* than "below" and "right" each raise, and the whole workspace state (buffers,
\* windows, splits, layout root, selection, cursor memory, history, id
\* counters, keymaps) after the call is the state before it.
C19_RejectedLeavesState ==
    [][ /\ (last'.op = "delete_window" /\ Len(window_list(state)) <= 1) =>
               (last'.exc = "ValueError" /\ state' = state)
        /\ (last'.op = "kill_buffer" /\ last'.arg \notin DOMAIN state.buffers) =>
               (last'.exc = "KeyError" /\ state' = state)
        /\ (last'.op = "split_selected_window" /\ last'.arg \notin {"below", "right"}) =>
               (last'.exc = "ValueError" /\ state' = state)
      ]_vars

\* a split on the axis "diagonal" was just rejected in a layout of two windows
\* with text in the buffer
C19_Witness ==
    /\ last.op = "split_selected_window"
    /\ last.arg = "diagonal"
    /\ last.exc = "ValueError"
    /\ Len(window_list(state)) = 2
    /\ state.next_window_id = 3
    /\ Len(state.buffers[SCRATCH]) = 1

\* C20: after delete_other_windows, in any layout, the layout is the single
\* window that was selected, which is still selected; the split store is empty;
\* the cursor memory holds that window's points only; the window shows the
\* buffer it showed at the cursor it had; and a second delete_other_windows
\* leaves that state as it is.
C20_OnlySelectedWindowRemains ==
    [][ last'.op = "delete_other_windows" =>
            /\ last'.exc = None
            /\ state'.layout_root = WindowRef(state.selected_window_id)
            /\ window_list(state') = <<state.selected_window_id>>
            /\ DOMAIN state'.windows = {state.selected_window_id}
            /\ state'.selected_window_id = state.selected_window_id
            /\ state'.splits = << >>
            /\ DOMAIN state'.window_points = {state.selected_window_id}
            /\ state'.windows[state.selected_window_id].buffer = selected_buffer(state)
            /\ current_cursor(state') = current_cursor(state)
            /\ delete_other_windows(state') = state'
      ]_vars

\* delete_other_windows just collapsed a layout that had three windows onto
\* window 2, which shows "a" at offset 1 and is not the first window made
C20_Witness ==
    /\ last.op = "delete_other_windows"
    /\ state.next_window_id = 4
    /\ state.next_split_id = 3
    /\ state.selected_window_id = 2
    /\ state.windows[2].buffer = "a"
    /\ current_cursor(state) = 1
    /\ state.splits = << >>

(***************************************************************************)
(* The typing scenario (C21).                                              *)
(***************************************************************************)
\* every window in the traversal of s shows *scratch* with the text "ab" at
\* cursor 2
AllShowAbAtEnd(s) ==
    /\ s.buffers[SCRATCH] = <<"a", "b">>
    /\ \A i \in 1..Len(window_list(s)) :
          /\ window_buffer(s, window_list(s)[i]) = SCRATCH
          /\ window_cursor(s, window_list(s)[i]) = 2

\* the initial workspace after a and b were typed: no window was ever made
TypedAb(s) ==
    /\ window_list(s) = <<1>>
    /\ s.next_window_id = 2
    /\ AllShowAbAtEnd(s)

\* the workspace of TypedAb after C-x 2
SplitAfterTypedAb(s) ==
    /\ window_list(s) = <<1, 2>>
    /\ s.selected_window_id = 1
    /\ s.next_window_id = 3
    /\ AllShowAbAtEnd(s)

\* the step dispatches the chord `key` while C-x is pending
CtrlXThen(key) ==
    /\ last'.op = "dispatch_key_chord"
    /\ last'.arg = key
    /\ pending_keys = << <<"C","-","x">> >>

\* C21 as stated: after a and b are typed, C-x 2 gives two windows on the same
\* buffer and cursor, and C-x 0 then leaves exactly one window, the window that
\* was selected before the deletion.
C21_Original ==
    [][ /\ (CtrlXThen(<<"2">>) /\ TypedAb(state)) => SplitAfterTypedAb(state')
        /\ (CtrlXThen(<<"0">>) /\ SplitAfterTypedAb(state)) =>
               /\ window_list(state') = <<state.selected_window_id>>
               /\ AllShowAbAtEnd(state')
      ]_vars

\* C21: after a and b are typed into the initial workspace (text "ab", cursor
\* 2), C-x 2 gives two windows on the same buffer and cursor with the first
\* still selected, and C-x 0 then leaves exactly one window: the window the
\* split created, selected, on the same buffer and cursor; the window that was
\* selected before the deletion is the one deleted.
C21_SplitThenDeleteKeepsNewWindow ==
    [][ /\ (CtrlXThen(<<"2">>) /\ TypedAb(state)) => SplitAfterTypedAb(state')
        /\ (CtrlXThen(<<"0">>) /\ SplitAfterTypedAb(state)) =>
               /\ window_list(state') = <<2>>
               /\ state'.selected_window_id = 2
               /\ state.selected_window_id \notin DOMAIN state'.windows
               /\ AllShowAbAtEnd(state')
      ]_vars

\* C-x 0 was just dispatched and left one window on "ab" at cursor 2 after the
\* one split of the scenario
C21_Witness ==
    /\ last.op = "dispatch_key_chord"
    /\ last.arg = <<"0">>
    /\ last.pre.pending_keys = << <<"C","-","x">> >>
    /\ SplitAfterTypedAb(last.pre.state)
    /\ status = "ran delete-window"
    /\ Len(window_list(state)) = 1
    /\ AllShowAbAtEnd(state)

(***************************************************************************)
(* Window selection and buffer display (C22, C25, C26).                    *)
(***************************************************************************)
\* the window after w in the traversal of s, the first one after the last
FollowingWindow(s, w) ==
    LET windows == window_list(s)
        i == CHOOSE i \in 1..Len(windows) : windows[i] = w
    IN IF i = Len(windows) THEN windows[1] ELSE windows[i + 1]

\* the selected ids after 1, 2, ... n calls of other_window from s
RECURSIVE Visited(_, _)
Visited(s, n) ==
    IF n = 0 THEN << >> ELSE <<other_window(s).selected_window_id>> \o Visited(other_window(s), n - 1)

\* C22: other_window selects the window that follows the selected one in the
\* traversal of the layout, the first window after the last; with one window
\* the state is unchanged; called as many times as there are windows it selects
\* every window once and ends on the window it started from; nothing but the
\* selected window id changes.
C22_OtherWindowCycles ==
    [][ last'.op = "other_window" =>
            /\ last'.exc = None
            /\ state'.selected_window_id = FollowingWindow(state, state.selected_window_id)
            /\ Len(window_list(state)) = 1 => state' = state
            /\ state' = [state EXCEPT !.selected_window_id = state'.selected_window_id]
            /\ LET n == Len(window_list(state))
                   visited == Visited(state, n)
               IN /\ Range(visited) = Range(window_list(state))
                  /\ \A i, j \in 1..n : visited[i] = visited[j] => i = j
                  /\ visited[n] = state.selected_window_id
      ]_vars

\* other_window just moved the selection from window 3 to window 2 in the
\* traversal 1, 3, 2
C22_Witness ==
    /\ last.op = "other_window"
    /\ window_list(state) = <<1, 3, 2>>
    /\ state.selected_window_id = 2
    /\ Len(state.buffers[SCRATCH]) = 1

(***************************************************************************)
(* Hooks around a command (C23, C24).                                      *)
(***************************************************************************)
RunCalled == last.op = "run"

\* the hooks registered for event, in registration order
Registered(event) == DictGet(hooks, event, << >>)

\* one call of every hook registered for event, in registration order
Notified(event, args) ==
    [i \in 1..Len(Registered(event)) |-> HookCall(event, i, Registered(event)[i], args)]

\* the value run got from the command (None when it returned nothing)
RunResult == IF last.pre.has_value THEN last.pre.value ELSE None

BeforeCalls == Notified("before-command", <<last.arg, last.pre.args>>)

AfterCalls == Notified("after-command", <<last.arg, last.pre.args, RunResult>>)

\* the before hooks, then the command once, then the after hooks with its result
FullNotification ==
    last.pre.calls = BeforeCalls \o <<CommandCall(last.arg, last.pre.args)>> \o AfterCalls

\* the value show-buffer and insert return in the state they leave
ResultOfCommand ==
    /\ last.arg = "show-buffer" => last.pre.has_value /\ last.pre.value = Str(current_text(state))
    /\ last.arg = "insert" => ~last.pre.has_value

\* C23: a run of a registered name that returns has called the before-command
\* hooks with (name, args) in registration order, then the command once with
\* the arguments, then the after-command hooks with (name, args, result), and
\* has returned the command's result; a run of a name that is not registered
\* raises KeyError 'unknown command: <name>' and has called no hook.
C23_HooksAroundCommand ==
    RunCalled =>
        /\ last.arg \notin commands =>
               /\ last.exc = "KeyError"
               /\ last.pre.msg = "unknown command: " \o last.arg
               /\ last.pre.calls = << >>
        /\ (last.arg \in commands /\ last.exc = None) =>
               /\ FullNotification
               /\ ResultOfCommand

\* show-buffer just returned "x" with two hooks registered for each event
C23_Witness ==
    /\ RunCalled
    /\ last.arg = "show-buffer"
    /\ last.exc = None
    /\ last.pre.value = "x"
    /\ Len(Registered("before-command")) = 2
    /\ Len(Registered("after-command")) = 2
    /\ Len(last.pre.calls) = 5

\* some hook registered for the two command events raises
SomeHookRaises ==
    \E event \in HookEvents : \E i \in 1..Len(Registered(event)) :
        hook_raises(Registered(event)[i]) # None

\* every hook registered for the two command events that raises, raises an
\* Exception
HooksRaiseExceptionsOnly ==
    \A event \in HookEvents : \A i \in 1..Len(Registered(event)) :
        hook_raises(Registered(event)[i]) \in {None} \cup ExceptionClasses

\* every hook was called, the command ran once and its own outcome is the
\* outcome of run: no exception leaves run unless the command raised it, after
\* which no after-command hook is called
HookFailuresIsolated ==
    \/ last.exc = None /\ FullNotification /\ ResultOfCommand
    \/ /\ last.exc # None
       /\ last.pre.calls = BeforeCalls \o <<CommandCall(last.arg, last.pre.args)>>
       /\ last.arg = "delete-window"

OthersUntouched(s, t, w) ==
    \A v \in DOMAIN s.windows \ {w} :
        /\ v \in DOMAIN t.windows
        /\ t.windows[v].buffer = s.windows[v].buffer
        /\ window_cursor(t, v) = window_cursor(s, v)

\* the buffer store of t is that of s with name added, empty, if it was absent
BufferEnsured(s, t, name) ==
    /\ DOMAIN t.buffers = DOMAIN s.buffers \cup {name}
    /\ \A b \in DOMAIN s.buffers : t.buffers[b] = s.buffers[b]
    /\ name \notin DOMAIN s.buffers => t.buffers[name] = << >>

\* window w of t has a cursor entry for name: the one it had in s, else 0
CursorEntryEnsured(s, t, w, name) ==
    /\ name \in DOMAIN t.window_points[w]
    /\ t.window_points[w][name] =
           IF w \in DOMAIN s.window_points /\ name \in DOMAIN s.window_points[w]
           THEN s.window_points[w][name] ELSE 0

\* C25: switch_buffer(name) makes the selected window show name, creates name
\* with empty text when it is not in the buffer store, gives the selected
\* window a cursor entry for name (its old one, or 0 when it had none), puts
\* name at the front of buffer_history, and leaves the selection and every
\* other window's buffer and cursor unchanged.
C25_SwitchBufferShowsName ==
    [][ last'.op = "switch_buffer" =>
            /\ last'.exc = None
            /\ state'.selected_window_id = state.selected_window_id
            /\ state'.windows[state.selected_window_id].buffer = last'.arg
            /\ BufferEnsured(state, state', last'.arg)
            /\ CursorEntryEnsured(state, state', state.selected_window_id, last'.arg)
            /\ state'.buffer_history = <<last'.arg>> \o Without(state.buffer_history, last'.arg)
            /\ OthersUntouched(state, state', state.selected_window_id)
      ]_vars

\* the selected window was just switched back to "a", where it had left its
\* cursor at 1, while the other window shows *scratch*
C25_Witness ==
    /\ last.op = "switch_buffer"
    /\ last.arg = "a"
    /\ window_list(state) = <<1, 2>>
    /\ state.window_points[1]["a"] = 1
    /\ state.windows[2].buffer = SCRATCH
    /\ state.buffer_history = <<"a", SCRATCH>>

\* w is the first window in the traversal of s that is not the selected one
FirstOtherWindow(s, w) ==
    /\ w # s.selected_window_id
    /\ \E i \in 1..Len(window_list(s)) :
          /\ window_list(s)[i] = w
          /\ \A j \in 1..(i - 1) : window_list(s)[j] = s.selected_window_id

\* name is shown in window w after the step, and nothing else about the
\* windows changed
ShownIn(w, name) ==
    /\ state'.windows[w].buffer = name
    /\ window_list(state') = window_list(state)
    /\ state'.selected_window_id = state.selected_window_id
    /\ OthersUntouched(state, state', w)

\* C26: pop_to_buffer(name, prefer_other=true) with two or more windows shows
\* name in the first window of the traversal that is not the selected one and
\* leaves the selection and the selected window's buffer and cursor unchanged;
\* with one window, or with prefer_other false, it shows name in the selected
\* window.
C26_PopPrefersOtherWindow ==
    [][ last'.op = "pop_to_buffer" =>
            /\ (last'.pre.prefer_other /\ Len(window_list(state)) >= 2) =>
                   \E w \in DOMAIN state.windows :
                       /\ FirstOtherWindow(state, w)
                       /\ ShownIn(w, last'.arg)
                       /\ state'.windows[state.selected_window_id].buffer =
                              state.windows[state.selected_window_id].buffer
                       /\ current_cursor(state') = current_cursor(state)
            /\ (~last'.pre.prefer_other \/ Len(window_list(state)) = 1) =>
                   ShownIn(state.selected_window_id, last'.arg)
      ]_vars

\* "a" was just popped with prefer_other into window 1, the first of the
\* traversal 1, 3, 2, while window 3 is selected and still shows *scratch*
C26_Witness ==
    /\ last.op = "pop_to_buffer"
    /\ last.arg = "a"
    /\ last.pre.prefer_other
    /\ window_list(state) = <<1, 3, 2>>
    /\ state.selected_window_id = 3
    /\ state.windows[1].buffer = "a"
    /\ state.windows[3].buffer = SCRATCH
    /\ state.windows[2].buffer = SCRATCH

(***************************************************************************)
(* The codec (C27).                                                        *)
(***************************************************************************)
\* the modifiers a written chord names
ModifiersOf(chord) == {chord[1][i].modifier : i \in 1..Len(chord[1])}

\* two written chords that differ only in the case, order, alias and
\* repetition of their modifiers and in the case of the base key
SameChord(c1, c2) ==
    /\ ModifiersOf(c1) = ModifiersOf(c2)
    /\ str_lower(c1[2]) = str_lower(c2[2])

SameSequence(w1, w2) ==
    /\ Len(w1) = Len(w2)
    /\ \A i \in 1..Len(w1) : SameChord(w1[i], w2[i])

\* the modifiers named, in the order C, M, S, each followed by "-", then the
\* base key in lower case
CanonicalText(chord) ==
    (IF "C" \in ModifiersOf(chord) THEN <<"C","-">> ELSE << >>)
    \o (IF "M" \in ModifiersOf(chord) THEN <<"M","-">> ELSE << >>)
    \o (IF "S" \in ModifiersOf(chord) THEN <<"S","-">> ELSE << >>)
    \o str_lower(chord[2])

ParseCalled == last.op = "parse_key_sequence"

\* C27: parse_key_sequence of a chord string returns, chord by chord, the
\* modifiers named in the fixed order C, M, S and the base key in lower case;
\* every chord string that differs from it only in modifier case, order, alias
\* or repetition, or in the case of the base key, parses to the identical
\* sequence; and parsing the formatted canonical sequence returns it unchanged.
C27_CanonicalSequence ==
    /\ ParseCalled =>
           /\ last.exc = None
           /\ last.pre.value =
                  [i \in 1..Len(last.pre.written) |-> CanonicalText(last.pre.written[i])]
           /\ \A other \in WrittenSequences :
                  SameSequence(last.pre.written, other) =>
                      parse_key_sequence(SequenceText(other)) = Parsed(last.pre.value)
           /\ parse_key_sequence(format_key_sequence(last.pre.value)) = Parsed(last.pre.value)
    /\ last.op = "format_key_sequence" =>
           parse_key_sequence(last.pre.value) = Parsed(last.arg)

\* "Shift-M-c-X" was just parsed to the one chord C-M-S-x
C27_Witness ==
    /\ ParseCalled
    /\ last.arg = <<"S","h","i","f","t","-","M","-","c","-","X">>
    /\ last.pre.value = << <<"C","-","M","-","S","-","x">> >>

(***************************************************************************)
(* The reverse query (C28).                                                *)
(***************************************************************************)
WhereIsReturned == last.op = "where_is" /\ last.exc = None

\* the sequences a keymap binds to the command
BoundTo(keymap, name) == {k \in DOMAIN keymap : keymap[k] = name}

\* every binding of the command in the tables consulted for the buffer
ActiveBindings(s, buffer, name) ==
    {KeyBindingInfo(k, name, "global", None, None) : k \in BoundTo(s.global_keymap, name)}
    \cup {KeyBindingInfo(k, name, "buffer", buffer, None) :
            k \in BoundTo(DictGet(s.buffer_keymaps, buffer, << >>), name)}
    \cup UNION {{KeyBindingInfo(k, name, "mode", buffer, m) :
                    k \in BoundTo(DictGet(s.mode_keymaps, m, << >>), name)} :
                m \in Range(DictGet(s.buffer_modes, buffer, << >>))}

\* the place of a binding's scope in the order of resolution: the modes of the
\* buffer from the one enabled last to the one enabled first, the buffer, global
ScopeRank(s, buffer, binding) ==
    LET modes == DictGet(s.buffer_modes, buffer, << >>)
    IN IF binding.scope = "mode" THEN Len(modes) + 1 - IndexOf(modes, binding.mode)
       ELSE IF binding.scope = "buffer" THEN Len(modes) + 1
       ELSE Len(modes) + 2

\* C28 as stated: where_is(command) returns every binding of the command in
\* the scopes it queries, and the list ascends by key sequence from each
\* entry to every later one, whatever scopes the two come from.
C28_Original ==
    WhereIsReturned =>
        LET v == last.pre.value
        IN /\ Range(v) = ActiveBindings(state, last.pre.buffer, last.arg)
           /\ \A i, j \in 1..Len(v) :
                  i < j => ~tuple_less(v[j].sequence, v[i].sequence)

\* C28: where_is(command) returns every binding of the command in the scopes
\* it queries, each once; the list goes through the scopes in the order of
\* resolution (modes from the one enabled last, then the buffer, then global)
\* and ascends by key sequence among the bindings of one scope.
C28_WhereIsScopeThenSequence ==
    WhereIsReturned =>
        LET v == last.pre.value
            rank(i) == ScopeRank(state, last.pre.buffer, v[i])
        IN /\ Range(v) = ActiveBindings(state, last.pre.buffer, last.arg)
           /\ Len(v) = Cardinality(Range(v))
           /\ \A i, j \in 1..Len(v) :
                  i < j => \/ rank(i) < rank(j)
                           \/ rank(i) = rank(j) /\ tuple_less(v[i].sequence, v[j].sequence)

\* a list with bindings of two modes, of the buffer and three global ones,
\* where a sequence of one scope is followed by a smaller one of the next
C28_Witness ==
    /\ WhereIsReturned
    /\ LET v == last.pre.value
       IN /\ {"m1", "m2"} \subseteq {v[i].mode : i \in 1..Len(v)}
          /\ \E i \in 1..Len(v) : v[i].scope = "buffer"
          /\ Cardinality({i \in 1..Len(v) : v[i].scope = "global"}) = 3
          /\ \E i, j \in 1..Len(v) : i < j /\ tuple_less(v[j].sequence, v[i].sequence)

(***************************************************************************)
(* Cursors under a text change (C29).                                      *)
(***************************************************************************)
\* the operations that change the text of the selected buffer through
\* set_current_text
TextOps == {"set_current_text", "insert", "delete_backward_char"}

\* the windows of s that show the buffer
WindowsShowing(s, buffer) == {w \in Range(window_list(s)) : window_buffer(s, w) = buffer}

\* where insert and delete_backward_char put the cursor of the selected
\* window after they have set the text
CursorPlaced(op, arg, cursor) ==
    IF op = "insert" THEN cursor + Len(arg)
    ELSE IF op = "delete_backward_char" THEN Max2(0, cursor - arg)
    ELSE cursor

NoTrace(s, buffer) ==
    /\ buffer \notin DOMAIN s.buffer_keymaps
    /\ buffer \notin DOMAIN s.buffer_modes
    /\ \A w \in DOMAIN s.window_points : buffer \notin DOMAIN s.window_points[w]

\* the buffer is as a buffer never used: empty, without modes, its keys
\* resolved by the global table alone, at offset 0 in every window
Fresh(s, buffer) ==
    /\ s.buffers[buffer] = << >>
    /\ DictGet(s.buffer_modes, buffer, << >>) = << >>
    /\ \A sequence \in KillSequences :
           LET r == describe_key(s, parse_key_sequence(sequence), buffer)
           IN r.exc = None => r.value.scope = "global"
    /\ \A name \in {"backward-char"} :
           \A i \in DOMAIN where_is(s, commands, name, buffer).value :
               where_is(s, commands, name, buffer).value[i].scope = "global"
    /\ \A w \in Range(window_list(s)) :
           DictGet(DictGet(s.window_points, w, << >>), buffer, 0) = 0

\* C30: kill_buffer(B) removes B's keymap, B's mode list and the cursor every
\* window kept for B, and nothing is kept for a buffer that does not exist;
\* when B is made again, by the kill itself as the last buffer or by a later
\* switch_buffer(B), it is empty, has no modes, no binding of the buffer
\* scope resolves for it, and its cursor is 0 in every window.
C30_KilledBufferStartsAfresh ==
    [][ /\ Completed("kill_buffer") =>
               IF last'.arg \in DOMAIN state'.buffers
               THEN /\ Fresh(state', last'.arg)
                    /\ last'.arg \notin DOMAIN state'.buffer_keymaps
                    /\ last'.arg \notin DOMAIN state'.buffer_modes
               ELSE NoTrace(state', last'.arg)
        /\ \A buffer \in KillBufNames :
               buffer \notin DOMAIN state'.buffers => NoTrace(state', buffer)
        /\ last'.op = "switch_buffer" /\ last'.arg \notin DOMAIN state.buffers
               => Fresh(state', last'.arg)
      ]_vars

\* buffer "a" had a mode enabled and never disabled, was killed, and has been
\* made again by switch_buffer while two windows are open
C30_Witness ==
    /\ last.op = "switch_buffer"
    /\ last.arg = "a"
    /\ ModeHistory("a").latest # << >>
    /\ "a" \notin DOMAIN state.buffer_modes
    /\ Len(window_list(state)) = 2
    /\ Fresh(state, "a")

(***************************************************************************)
(* Registering a name again (C31).                                         *)
(***************************************************************************)
\* the name a key sequence resolves to for the selected buffer, None if unbound
ResolvedName(s, sequence) ==
    LET r == resolve_key(s, parse_key_sequence(sequence), None)
    IN IF r.exc = None THEN r.value ELSE None

\* C31: Editor.command never fails and stores the function and metadata given
\* for the name, over whatever the name had, leaving every other name and
\* every binding alone; no other call changes the registry; a run of a name
\* registered at run time, by name or through a key sequence that resolves to
\* it (bound before or after), calls the function the registry holds, which is
\* the one registered last.
C31_LastRegistrationWins ==
    [][ /\ last'.op = "command" =>
               /\ last'.exc = None
               /\ commands' = commands \cup {last'.arg}
               /\ last'.arg \in DOMAIN command_infos'
               /\ command_infos'[last'.arg].fn = last'.pre.fn.id
               /\ command_infos'[last'.arg].doc \in {last'.pre.fn.doc, "(undocumented command)"}
               /\ command_infos'[last'.arg].source_kind \in _SOURCE_KINDS
               /\ \A name \in DOMAIN command_infos' \ {last'.arg} :
                      name \in DOMAIN command_infos /\ command_infos'[name] = command_infos[name]
               /\ state' = state
        /\ last'.op # "command" => command_infos' = command_infos /\ commands' = commands
        /\ (last'.op = "run" /\ last'.arg \in DOMAIN command_infos) =>
               /\ last'.exc = None
               /\ last'.pre.value = command_infos[last'.arg].fn
               /\ last'.pre.ran = <<last'.arg>>
        /\ (last'.op = "run" /\ last.op = "command" /\ last'.arg = last.arg) =>
               last'.pre.value = last.pre.fn.id
        /\ (last'.op = "command_execute"
            /\ ResolvedName(state, last'.arg) \in DOMAIN command_infos) =>
               /\ last'.exc = None
               /\ last'.pre.value = command_infos[ResolvedName(state, last'.arg)].fn
        /\ (last'.op = "command_execute" /\ last.op = "command"
            /\ ResolvedName(state, last'.arg) = last.arg) =>
               last'.pre.value = last.pre.fn.id
      ]_vars

\* "plug" held one function and was bound to a key; it has been registered
\* again with another function, which the registry now holds
C31_Witness ==
    /\ last.op = "command"
    /\ last.arg = "plug"
    /\ "plug" \in DOMAIN last.pre.registry.command_infos
    /\ last.pre.registry.command_infos["plug"].fn # last.pre.fn.id
    /\ \E k \in DOMAIN state.global_keymap : state.global_keymap[k] = "plug"
    /\ command_infos["plug"].fn = last.pre.fn.id

(***************************************************************************)
(* Windows are made by split and removed by deletion only (C32).           *)
(***************************************************************************)
\* the operations on buffers, text, cursors, keymaps and modes
NonWindowOps ==
    {"switch_buffer", "pop_to_buffer", "kill_buffer", "set_current_text",
     "set_current_cursor", "bind_key", "enable_mode", "disable_mode"}

\* the window ids, the splits, the layout tree and the selected window
LayoutOf(s) ==
    [window_ids |-> DOMAIN s.windows, splits |-> s.splits, layout_root |-> s.layout_root,
     selected_window_id |-> s.selected_window_id]

\* C32: switch_buffer, pop_to_buffer, kill_buffer, set_text, set_cursor,
\* bind_key, enable_mode and disable_mode leave the set of window ids, the
\* split store, the layout tree and the selected window id as they were; a
\* window id appears only under split and disappears only under
\* delete_window and delete_other_windows.
C32_WindowsOnlySplitAndDeleted ==
    [][ /\ last'.op \in NonWindowOps => LayoutOf(state') = LayoutOf(state)
        /\ DOMAIN state'.windows \ DOMAIN state.windows # {}
               => last'.op = "split_selected_window"
        /\ DOMAIN state.windows \ DOMAIN state'.windows # {}
               => last'.op \in {"delete_window", "delete_other_windows"}
      ]_vars

\* pop_to_buffer has shown a buffer in the window that is not selected, and
\* the two windows, their split and the selection are in place
C32_Witness ==
    /\ last.op = "pop_to_buffer"
    /\ last.pre.prefer_other
    /\ Cardinality(DOMAIN state.windows) = 2
    /\ \E w \in DOMAIN state.windows :
           /\ w # state.selected_window_id
           /\ state.windows[w].buffer = last.arg
           /\ state.windows[state.selected_window_id].buffer # last.arg

(***************************************************************************)
(* The stores and the tree (C33, C34, C36).                                *)
(***************************************************************************)
\* the ids of one kind met by the walk from layout_root
ReachableIds(s, kind) ==
    {ReachableRefs(s)[i][2] : i \in {j \in 1..Len(ReachableRefs(s)) : ReachableRefs(s)[j][1] = kind}}

\* C33: the ids of the window store are exactly the window ids reachable from
\* layout_root, the ids of the split store are exactly the split ids reachable
\* from layout_root, and there is one split fewer than there are windows.
C33_NoOrphans ==
    /\ DOMAIN state.windows = ReachableIds(state, "window")
    /\ DOMAIN state.splits = ReachableIds(state, "split")
    /\ Cardinality(DOMAIN state.splits) = Cardinality(DOMAIN state.windows) - 1

\* a window deleted from under the inner split of three windows: the two
\* windows left hang from the one split left
C33_Witness ==
    /\ last.op = "delete_window" /\ last.exc = None
    /\ state.next_split_id = 3
    /\ Cardinality(DOMAIN state.windows) = 2
    /\ Cardinality(DOMAIN state.splits) = 1
    /\ C33_NoOrphans

\* the window snapshots of a snapshot that carry the selected flag
SelectedSnapshots(snap) == {i \in 1..Len(snap.windows) : snap.windows[i].selected}

ExactlyOneSelected(snap) ==
    /\ Cardinality(SelectedSnapshots(snap)) = 1
    /\ \A i \in SelectedSnapshots(snap) : snap.windows[i].window_id = snap.selected_window_id

\* C34: selected_window_id is the id of a window that is a leaf of the layout
\* tree, so the snapshot taken in any state, and the one just taken, holds
\* exactly one window snapshot with the selected flag, whose id is the
\* selected window id of the snapshot.
C34_SelectedIsLeaf ==
    /\ state.selected_window_id \in ReachableIds(state, "window")
    /\ state.selected_window_id \in DOMAIN state.windows
    /\ ExactlyOneSelected(snapshot(state, status).value)
    /\ snapshot(state, status).value.selected_window_id = state.selected_window_id
    /\ last.op = "snapshot" => ExactlyOneSelected(last.pre.value)

\* a snapshot of three windows taken while the window selected is not the
\* first of the layout
C34_Witness ==
    /\ last.op = "snapshot"
    /\ Len(last.pre.value.windows) = 3
    /\ last.pre.value.windows[1].window_id # last.pre.value.selected_window_id
    /\ ExactlyOneSelected(last.pre.value)

(***************************************************************************)
(* The buffer history (C35).                                               *)
(***************************************************************************)
\* C35: buffer_history names no buffer twice, and the names in it are exactly
\* the keys of the buffer store.
C35_HistoryListsBuffersOnce ==
    /\ \A i, j \in 1..Len(state.buffer_history) :
           state.buffer_history[i] = state.buffer_history[j] => i = j
    /\ Range(state.buffer_history) = DOMAIN state.buffers

\* kill-buffer has removed one of four buffers, two of them written by
\* list-buffers and where-is
C35_Witness ==
    /\ last.op = "run" /\ last.arg = "kill-buffer" /\ last.exc = None
    /\ GeneratedBuffers \subseteq DOMAIN state.buffers
    /\ Len(state.buffer_history) = 3
    /\ C35_HistoryListsBuffersOnce

\* C36: in every reachable state the cursors remembered per window agree
\* with the stores: the windows that have remembered cursors are the windows
\* of the window store, every window remembers a cursor for the buffer it
\* shows, and no remembered cursor is for a buffer missing from the buffer
\* store.
C36_WindowPointsMatchStores ==
    /\ DOMAIN state.window_points = DOMAIN state.windows
    /\ \A w \in DOMAIN state.windows :
           state.windows[w].buffer \in DOMAIN state.window_points[w]
    /\ \A w \in DOMAIN state.window_points :
           DOMAIN state.window_points[w] \subseteq DOMAIN state.buffers

\* a buffer has just been killed in a frame one of whose windows was deleted
C36_Witness ==
    /\ last.op = "kill_buffer"
    /\ last.arg = "a"
    /\ last.exc = None
    /\ state.next_window_id > 1 + Cardinality(DOMAIN state.windows)
    /\ \A w \in DOMAIN state.window_points : "a" \notin DOMAIN state.window_points[w]

\* C37: a prompt handler is applied to at most one submission, and only to
\* the submission that answers its prompt: a submitted line leaves no
\* handler installed, and a line submitted when the last dispatch requested
\* the minibuffer through M-x is interpreted by the command grammar.
C37_PromptHandlerAnswersItsPrompt ==
    [][ last'.op = "handle_minibuffer_submit" =>
            /\ minibuffer_handler' = NoHandler
            /\ ui_action = UIAction("open-minibuffer", None) =>
                   LET u == submit_to_grammar(Controller, last'.arg)
                   IN /\ state' = u.state
                      /\ status' = u.status ]_vars

\* the windows whose stored offset for the buffer they show lies outside the
\* text of that buffer
StaleWindows(s, window_points) ==
    { w \in DOMAIN s.windows :
        /\ w \in DOMAIN window_points
        /\ s.windows[w].buffer \in DOMAIN window_points[w]
        /\ window_points[w][s.windows[w].buffer] > Len(s.buffers[s.windows[w].buffer]) }

\* C38: the cursor that window_cursor and snapshot report for a window lies
\* within [0, len(text)] of the buffer the window shows, whatever offset is
\* stored for it, and a snapshot taken right after a snapshot is equal to it.
C38_ReportedCursorInRange ==
    [][ /\ last'.op = "window_cursor" =>
               /\ 0 <= last'.pre.value
               /\ last'.pre.value <= Len(state.buffers[state.windows[last'.arg].buffer])
        /\ last'.op = "snapshot" =>
               \A i \in 1..Len(last'.pre.value.windows) :
                   LET window == last'.pre.value.windows[i]
                   IN /\ window.buffer = state.windows[window.window_id].buffer
                      /\ window.text = state.buffers[window.buffer]
                      /\ 0 <= window.cursor
                      /\ window.cursor <= Len(window.text)
        /\ (last.op = "snapshot" /\ last'.op = "snapshot") =>
               last'.pre.value = last.pre.value ]_vars

\* a snapshot has been taken of two windows, one of which had an offset
\* stored beyond the end of the text it shows
C38_Witness ==
    /\ last.op = "snapshot"
    /\ Len(last.pre.value.windows) = 2
    /\ StaleWindows(state, last.pre.window_points) # {}
    /\ StaleWindows(state, state.window_points) = {}

UI_PREFIXES == { << <<"C","-","x">> >>, << <<"C","-","h">> >> }

\* the outcome of the key `key` met with `pending` pending, read from the
\* controller after the step and from the trace of the step
PrefixOutcome(pending, key, trace) ==
    LET candidate == Append(pending, key)
    IN IF key = <<"C","-","g">>
       THEN status = "cancelled" /\ ui_action = UIAction("cancel-minibuffer", None)
       ELSE IF pending = << <<"C","-","x">> >> /\ key \in DOMAIN CTRL_X_COMMAND_BINDINGS
       THEN trace.ran = <<CTRL_X_COMMAND_BINDINGS[key]>>
       ELSE IF pending = << <<"C","-","x">> >> /\ key \in DOMAIN CTRL_X_PROMPT_BINDINGS
       THEN /\ ui_action = UIAction("open-minibuffer", CTRL_X_PROMPT_BINDINGS[key][3])
            /\ minibuffer_handler.command_name = CTRL_X_PROMPT_BINDINGS[key][1]
            /\ trace.ran = << >>
       ELSE IF pending = << <<"C","-","h">> >> /\ key \in DOMAIN HELP_PROMPT_BINDINGS
       THEN /\ ui_action = UIAction("open-minibuffer", HELP_PROMPT_BINDINGS[key][2])
            /\ minibuffer_handler.command_name = HELP_PROMPT_BINDINGS[key][1]
            /\ trace.ran = << >>
       ELSE IF pending = << <<"C","-","x">> >> /\ candidate \in DOMAIN UI_ACTION_BINDINGS
       THEN /\ ui_action = UIAction(UI_ACTION_BINDINGS[candidate], None)
            /\ trace.ran = << >>
       ELSE /\ status = "unbound key sequence: " \o Str(format_key_sequence(candidate))
            /\ ui_action = NoAction
            /\ trace.ran = << >>
            /\ state = trace.state

\* C39: a chord met while C-x or C-h is pending returns the machine to idle:
\* the pair is performed through the sub-table of the prefix or the UI
\* action table, cancelled by C-g or reported unbound, and the pending
\* sequence under these prefixes is never longer than one chord.
C39_PrefixResolvesInOneChord ==
    /\ (pending_keys # << >> /\ <<pending_keys[1]>> \in UI_PREFIXES) => Len(pending_keys) = 1
    /\ (last.op = "dispatch_key_chord" /\ last.pre.key # << >>
        /\ last.pre.pending_keys \in UI_PREFIXES) =>
           /\ pending_keys = << >>
           /\ PrefixOutcome(last.pre.pending_keys, last.pre.key, last.pre)

\* C-x f is bound in the global keymap and f was met with C-x pending
C39_Witness ==
    /\ last.op = "dispatch_key_chord"
    /\ last.pre.pending_keys = << <<"C","-","x">> >>
    /\ last.pre.key = <<"f">>
    /\ << <<"C","-","x">>, <<"f">> >> \in DOMAIN state.global_keymap
    /\ pending_keys = << >>
    /\ status = "unbound key sequence: C-x f"

\* the cursor window_cursor reports for every window
ReportedCursors(s) == [w \in DOMAIN s.windows |-> window_cursor(s, w)]

\* C40: split, other_window, delete_window in a row is a round trip:
\* other_window selects the window the split created, and after
\* delete_window the layout tree, the windows with their buffers and cursors
\* and the selected window are those before the split; nothing but the two
\* id counters differs from the state before the split.
C40_SplitOtherDeleteRoundTrip ==
    /\ Chained("other_window", 2) =>
           /\ state.selected_window_id = last.pre.origin.next_window_id
           /\ state.selected_window_id \notin DOMAIN last.pre.origin.windows
    /\ Chained("delete_window", 3) =>
           LET origin == last.pre.origin
           IN /\ _layout_from_tree(state, state.layout_root) =
                     _layout_from_tree(origin, origin.layout_root)
              /\ state.windows = origin.windows
              /\ ReportedCursors(state) = ReportedCursors(origin)
              /\ state.selected_window_id = origin.selected_window_id
              /\ state.next_window_id = origin.next_window_id + 1
              /\ state.next_split_id = origin.next_split_id + 1
              /\ [state EXCEPT !.next_window_id = origin.next_window_id,
                               !.next_split_id = origin.next_split_id] = origin

\* the round trip has been made from a split layout whose selected window
\* is not the last one, showing a buffer with text and a cursor inside it
C40_Witness ==
    /\ Chained("delete_window", 3)
    /\ Cardinality(DOMAIN state.windows) = 2
    /\ window_list(state)[1] = state.selected_window_id
    /\ state.windows[state.selected_window_id].buffer = "a"
    /\ state.windows[window_list(state)[2]].buffer = SCRATCH
    /\ Len(state.buffers["a"]) = 2
    /\ window_cursor(state, state.selected_window_id) = 1

====
